---- MODULE Spec2Model ----
(***************************************************************************)
(* Model of the typeset document builder (DocxParser): the style           *)
(* classifier, paragraph / heading / table parsing and the chapter         *)
(* splitting loop of _extract_chapters, together with the IR node and      *)
(* Chapter constructors it uses.                                           *)
(*                                                                         *)
(* Python strings are modelled as sequences of one-character strings so    *)
(* that lower(), strip(), `in', re.search and f-string formatting are      *)
(* computed character by character.  bytes are sequences of 0..255.        *)
(***************************************************************************)
EXTENDS Integers, Sequences, FiniteSets, TLC

(***************************************************************************)
(* Bounds of the model.                                                    *)
(***************************************************************************)
\* number of body elements (paragraphs and tables) the loop iterates over
MaxBlocks == 3

(***************************************************************************)
(* String helpers (Python str methods used by the source).                 *)
(***************************************************************************)
UpperLetters ==
    <<"A", "B", "C", "D", "E", "F", "G", "H", "I", "J", "K", "L", "M",
      "N", "O", "P", "Q", "R", "S", "T", "U", "V", "W", "X", "Y", "Z">>

LowerLetters ==
    <<"a", "b", "c", "d", "e", "f", "g", "h", "i", "j", "k", "l", "m",
      "n", "o", "p", "q", "r", "s", "t", "u", "v", "w", "x", "y", "z">>

Digits == <<"0", "1", "2", "3", "4", "5", "6", "7", "8", "9">>

Range(s) == {s[i] : i \in DOMAIN s}

IsUpper(c) == c \in Range(UpperLetters)

IsDigit(c) == c \in Range(Digits)

\* str.isspace for the characters of the model
IsSpace(c) == c \in {" ", "\t", "\n"}

\* \w of the re module: letters, digits and the underscore
IsWordChar(c) ==
    c \in Range(UpperLetters) \cup Range(LowerLetters) \cup Range(Digits) \cup {"_"}

LowerChar(c) ==
    IF IsUpper(c)
    THEN LowerLetters[CHOOSE i \in DOMAIN UpperLetters : UpperLetters[i] = c]
    ELSE c

\* str.lower()
lower(s) == [i \in DOMAIN s |-> LowerChar(s[i])]

DigitValue(c) == (CHOOSE i \in DOMAIN Digits : Digits[i] = c) - 1

\* int(str) of a run of decimal digits
RECURSIVE int(_)
int(s) ==
    IF s = <<>> THEN 0
    ELSE 10 * int(SubSeq(s, 1, Len(s) - 1)) + DigitValue(s[Len(s)])

\* str(n) of a natural number, as the f-strings format it
RECURSIVE str(_)
str(n) ==
    IF n < 10 THEN <<Digits[n + 1]>>
    ELSE str(n \div 10) \o <<Digits[(n % 10) + 1]>>

\* a in b (substring test)
In(a, b) ==
    \E i \in 0..(Len(b) - Len(a)) : SubSeq(b, i + 1, i + Len(a)) = a

\* str.startswith / bytes.startswith
startswith(s, prefix) ==
    Len(prefix) <= Len(s) /\ SubSeq(s, 1, Len(prefix)) = prefix

RECURSIVE lstrip(_)
lstrip(s) ==
    IF s # <<>> /\ IsSpace(s[1]) THEN lstrip(Tail(s)) ELSE s

RECURSIVE rstrip(_)
rstrip(s) ==
    IF s # <<>> /\ IsSpace(s[Len(s)])
    THEN rstrip(SubSeq(s, 1, Len(s) - 1))
    ELSE s

\* str.strip()
strip(s) == rstrip(lstrip(s))

\* "".join(parts)
RECURSIVE join(_)
join(parts) ==
    IF parts = <<>> THEN <<>> ELSE Head(parts) \o join(Tail(parts))

(***************************************************************************)
(* Literals of the source.                                                 *)
(***************************************************************************)
S_Heading1 == <<"H", "e", "a", "d", "i", "n", "g", " ", "1">>
S_Title == <<"T", "i", "t", "l", "e">>
S_Chapter == <<"C", "h", "a", "p", "t", "e", "r">>
S_Heading2 == <<"H", "e", "a", "d", "i", "n", "g", " ", "2">>
S_Heading3 == <<"H", "e", "a", "d", "i", "n", "g", " ", "3">>
S_Heading4 == <<"H", "e", "a", "d", "i", "n", "g", " ", "4">>
S_Normal == <<"N", "o", "r", "m", "a", "l">>
S_BodyText == <<"B", "o", "d", "y", " ", "T", "e", "x", "t">>
S_Body == <<"B", "o", "d", "y">>
S_Quote == <<"Q", "u", "o", "t", "e">>
S_BlockText == <<"B", "l", "o", "c", "k", " ", "T", "e", "x", "t">>

\* "Chapter " of f"Chapter {chapter_counter}"
ChapterSp == <<"C", "h", "a", "p", "t", "e", "r", " ">>

\* "chapter-" of f"chapter-{chapter_counter}"
ChapterDash == <<"c", "h", "a", "p", "t", "e", "r", "-">>

\* "chapter", the fallback of Chapter._slugify
SlugFallback == <<"c", "h", "a", "p", "t", "e", "r">>

\* "image_" of f"image_{self.image_counter}.{...}"
ImagePrefix == <<"i", "m", "a", "g", "e", "_">>

MimePng == <<"i", "m", "a", "g", "e", "/", "p", "n", "g">>
MimeJpeg == <<"i", "m", "a", "g", "e", "/", "j", "p", "e", "g">>
MimeGif == <<"i", "m", "a", "g", "e", "/", "g", "i", "f">>
MimeWebp == <<"i", "m", "a", "g", "e", "/", "w", "e", "b", "p">>

\* Python None
None == [node_type |-> "None"]

(***************************************************************************)
(* Configuration: StyleMapping with its default pattern lists.             *)
(***************************************************************************)
StyleMapping ==
    [chapter_heading_styles |-> <<S_Heading1, S_Title, S_Chapter>>,
     section_heading_styles |-> <<S_Heading2, S_Heading3, S_Heading4>>,
     body_styles |-> <<S_Normal, S_BodyText, S_Body>>,
     blockquote_styles |-> <<S_Quote, S_BlockText>>]

\* self.style_mapping of the parser (DocxParser() without an argument)
style_mapping == StyleMapping

\* Margins, PdfConfig, EpubConfig and MetadataConfig with their defaults; the
\* fields no renderer reads are left out
Margins ==
    [top |-> <<"0", ".", "7", "5", "i", "n">>,
     bottom |-> <<"0", ".", "7", "5", "i", "n">>,
     inside |-> <<"0", ".", "8", "7", "5", "i", "n">>,
     outside |-> <<"0", ".", "6", "2", "5", "i", "n">>]

PdfConfig ==
    [page_size |-> <<"6", "i", "n", " ", "9", "i", "n">>,
     margins |-> Margins,
     bleed |-> <<"0", ".", "1", "2", "5", "i", "n">>,
     font_family |-> <<"G", "e", "o", "r", "g", "i", "a", ",", " ", "s", "e", "r", "i", "f">>,
     font_size |-> <<"1", "1", "p", "t">>,
     line_height |-> <<"1", ".", "5">>,
     show_page_numbers |-> TRUE,
     page_number_position |-> "bottom-outside",
     include_title_page |-> TRUE,
     include_copyright_page |-> TRUE,
     include_toc |-> TRUE]

EpubConfig == [language |-> <<"e", "n">>, cover_image |-> None]

MetadataConfig ==
    [title |-> <<"U", "n", "t", "i", "t", "l", "e", "d">>, authors |-> <<>>, publisher |-> None,
     isbn_print |-> None, isbn_epub |-> None, copyright |-> None]

TypesetConfig ==
    [metadata |-> MetadataConfig, pdf |-> PdfConfig, epub |-> EpubConfig]

(***************************************************************************)
(* Style classifier.                                                       *)
(***************************************************************************)
is_chapter_heading(style_name) ==
    LET style_lower == lower(style_name)
        patterns == style_mapping.chapter_heading_styles
    IN \E k \in DOMAIN patterns :
          In(lower(patterns[k]), style_lower) \/ In(style_lower, lower(patterns[k]))

is_section_heading(style_name) ==
    LET style_lower == lower(style_name)
        patterns == style_mapping.section_heading_styles
    IN \E k \in DOMAIN patterns :
          In(lower(patterns[k]), style_lower) \/ In(style_lower, lower(patterns[k]))

\* the blockquote test of _parse_paragraph: any(bq.lower() in style_name.lower() ...)
is_blockquote_style(style_name) ==
    LET patterns == style_mapping.blockquote_styles
    IN \E k \in DOMAIN patterns : In(lower(patterns[k]), lower(style_name))

\* re.search(r"(\d+)", s).group(1): the leftmost, longest run of digits;
\* <<>> when there is no match
RECURSIVE DigitPrefix(_)
DigitPrefix(s) ==
    IF s # <<>> /\ IsDigit(s[1]) THEN <<s[1]>> \o DigitPrefix(Tail(s)) ELSE <<>>

RECURSIVE search_digits(_)
search_digits(s) ==
    IF s = <<>> THEN <<>>
    ELSE IF IsDigit(s[1]) THEN DigitPrefix(s)
    ELSE search_digits(Tail(s))

Min(a, b) == IF a < b THEN a ELSE b

Max(a, b) == IF a > b THEN a ELSE b

\* variant of heading_level: the parsed number is returned without the clamp
heading_level_unclamped(style_name) ==
    LET match == search_digits(style_name)
    IN IF match # <<>> THEN int(match) ELSE 1

heading_level(style_name) ==
    LET match == search_digits(style_name)
    IN IF match # <<>>
       THEN LET level == int(match) IN Min(Max(level, 1), 6)
       ELSE 1

(***************************************************************************)
(* IR nodes (typeset.ir.nodes).  A node is a record; the dataclass fields  *)
(* that neither the builder nor a renderer reads (attributes, width,        *)
(* height, title, start) are left out of the records.  The class of a node *)
(* shows in the fields its record has.                                     *)
(***************************************************************************)
Node(node_type, children) == [node_type |-> node_type, children |-> children]

\* TextNode.__post_init__ forces node_type TEXT and no children
TextNode(t) == [node_type |-> "text", children |-> <<>>, text |-> t]

\* the text() helper
text(content) == TextNode(content)

HeadingNode(level, children) ==
    [node_type |-> "heading", children |-> children, level |-> level]

\* alt_text and caption keep their defaults "" and None
ImageNode(src, mime_type, filename) ==
    [node_type |-> "image", children |-> <<>>, src |-> src,
     mime_type |-> mime_type, alt_text |-> <<>>, caption |-> None,
     filename |-> filename]

LinkNode(url, children) ==
    [node_type |-> "link", children |-> children, url |-> url]

ListNode(ordered, children) ==
    [node_type |-> "list", children |-> children, ordered |-> ordered]

\* isinstance(n, TextNode), isinstance(n, ImageNode), ...
IsTextNode(n) == "text" \in DOMAIN n
IsImageNode(n) == "src" \in DOMAIN n
IsHeadingNode(n) == "level" \in DOMAIN n
IsLinkNode(n) == "url" \in DOMAIN n
IsListNode(n) == "ordered" \in DOMAIN n

TableNode(children) ==
    [node_type |-> "table", children |-> children, col_widths |-> <<>>]

\* variant of get_text: the texts of the children are joined by a space
RECURSIVE get_text_spaced(_)
get_text_spaced(n) ==
    IF IsTextNode(n) THEN n.text
    ELSE IF n.children = <<>> THEN <<>>
    ELSE get_text_spaced(n.children[1])
            \o join([i \in 1..(Len(n.children) - 1) |->
                       <<" ">> \o get_text_spaced(n.children[i + 1])])

RECURSIVE get_text(_)
get_text(n) ==
    IF IsTextNode(n) THEN n.text
    ELSE join([i \in DOMAIN n.children |-> get_text(n.children[i])])

(***************************************************************************)
(* Chapter (typeset.ir.document).                                          *)
(***************************************************************************)
\* re.sub(r"[^\w\s-]", "", s)
RECURSIVE StripNonSlugChars(_)
StripNonSlugChars(s) ==
    IF s = <<>> THEN <<>>
    ELSE IF IsWordChar(s[1]) \/ IsSpace(s[1]) \/ s[1] = "-"
         THEN <<s[1]>> \o StripNonSlugChars(Tail(s))
         ELSE StripNonSlugChars(Tail(s))

\* re.sub(r"[\s_]+", "-", s)
RECURSIVE HyphenateRuns(_)
HyphenateRuns(s) ==
    IF s = <<>> THEN <<>>
    ELSE IF IsSpace(s[1]) \/ s[1] = "_"
         THEN IF Len(s) > 1 /\ (IsSpace(s[2]) \/ s[2] = "_")
              THEN HyphenateRuns(Tail(s))
              ELSE <<"-">> \o HyphenateRuns(Tail(s))
         ELSE <<s[1]>> \o HyphenateRuns(Tail(s))

\* s.strip("-")
RECURSIVE StripHyphens(_)
StripHyphens(s) ==
    IF s # <<>> /\ s[1] = "-" THEN StripHyphens(Tail(s))
    ELSE IF s # <<>> /\ s[Len(s)] = "-" THEN StripHyphens(SubSeq(s, 1, Len(s) - 1))
    ELSE s

\* variant of slugify: the title is not lower-cased
slugify_cased(t) ==
    LET slug == StripHyphens(HyphenateRuns(StripNonSlugChars(t)))
    IN IF slug # <<>> THEN slug ELSE SlugFallback

slugify(t) ==
    LET slug == StripHyphens(HyphenateRuns(StripNonSlugChars(lower(t))))
    IN IF slug # <<>> THEN slug ELSE SlugFallback

\* variant of Chapter: the id is always derived from the title
Chapter_slug_id(title, level, content, id) ==
    [title |-> title, level |-> level, content |-> content,
     id |-> slugify(title)]

\* Chapter(...) followed by __post_init__: an empty id is replaced by the slug
Chapter(title, level, content, id) ==
    [title |-> title, level |-> level, content |-> content,
     id |-> IF id = <<>> THEN slugify(title) ELSE id]

(***************************************************************************)
(* Source blocks, as the source-document adapter (python-docx) yields      *)
(* them.  A paragraph has a style name, runs and the embed ids of its      *)
(* a:blip elements ("" when the blip has no r:embed attribute); a table is *)
(* rows of cells, each cell a sequence of paragraphs.                      *)
(***************************************************************************)
Run(t, italic, bold) ==
    [text |-> t, italic |-> italic, bold |-> bold, strike |-> FALSE,
     superscript |-> FALSE, subscript |-> FALSE]

\* a run with all five font flags
Run5(t, italic, bold, strike, superscript, subscript) ==
    [text |-> t, italic |-> italic, bold |-> bold, strike |-> strike,
     superscript |-> superscript, subscript |-> subscript]

Para(style, runs, blips) ==
    [tag |-> "p", style |-> style, runs |-> runs, blips |-> blips]

Tbl(rows) == [tag |-> "tbl", rows |-> rows]

\* para.text: the concatenated text of the runs
para_text(para) == join([i \in DOMAIN para.runs |-> para.runs[i].text])

\* para.style.name if para.style else <default>
style_name_of(para) == para.style

(***************************************************************************)
(* Paragraph, heading and table parsing.                                   *)
(***************************************************************************)
\* variant of wrap_run: the strong wrapper is applied before the emphasis
\* wrapper
wrap_run_strong_first(run) ==
    LET n0 == TextNode(run.text)
        n1 == IF run.bold THEN Node("strong", <<n0>>) ELSE n0
        n2 == IF run.italic THEN Node("emphasis", <<n1>>) ELSE n1
        n3 == IF run.strike THEN Node("strikethrough", <<n2>>) ELSE n2
        n4 == IF run.superscript THEN Node("superscript", <<n3>>) ELSE n3
        n5 == IF run.subscript THEN Node("subscript", <<n4>>) ELSE n4
    IN n5

\* the body of the loop of _parse_runs for a run with text: the Text leaf,
\* wrapped once per set flag
wrap_run(run) ==
    LET n0 == TextNode(run.text)
        n1 == IF run.italic THEN Node("emphasis", <<n0>>) ELSE n0
        n2 == IF run.bold THEN Node("strong", <<n1>>) ELSE n1
        n3 == IF run.strike THEN Node("strikethrough", <<n2>>) ELSE n2
        n4 == IF run.superscript THEN Node("superscript", <<n3>>) ELSE n3
        n5 == IF run.subscript THEN Node("subscript", <<n4>>) ELSE n4
    IN n5

RECURSIVE parse_runs(_)
parse_runs(runs) ==
    IF runs = <<>> THEN <<>>
    ELSE IF Head(runs).text = <<>> THEN parse_runs(Tail(runs))
    ELSE <<wrap_run(Head(runs))>> \o parse_runs(Tail(runs))

has_images(para) == para.blips # <<>>

detect_image_type(data) ==
    IF startswith(data, <<137, 80, 78, 71>>) THEN MimePng
    ELSE IF startswith(data, <<255, 216, 255>>) THEN MimeJpeg
    ELSE IF startswith(data, <<71, 73, 70>>) THEN MimeGif
    ELSE IF startswith(data, <<82, 73, 70, 70>>)
            /\ In(<<87, 69, 66, 80>>, SubSeq(data, 1, Min(12, Len(data))))
    THEN MimeWebp
    ELSE MimePng

\* mime_type.split('/')[-1]
RECURSIVE after_last_slash(_)
after_last_slash(s) ==
    IF In(<<"/">>, s) THEN after_last_slash(Tail(s)) ELSE s

\* variant of extract_blips: self.image_counter is not advanced
RECURSIVE extract_blips_unnumbered(_, _, _)
extract_blips_unnumbered(blips, imgs, counter) ==
    IF blips = <<>> THEN [images |-> <<>>, image_counter |-> counter]
    ELSE LET embed_id == Head(blips)
         IN IF embed_id # "" /\ embed_id \in DOMAIN imgs
            THEN LET image_data == imgs[embed_id]
                     mime_type == detect_image_type(image_data)
                     img == ImageNode(image_data, mime_type,
                                ImagePrefix \o str(counter + 1) \o <<".">>
                                    \o after_last_slash(mime_type))
                     rest == extract_blips_unnumbered(Tail(blips), imgs, counter)
                 IN [images |-> <<img>> \o rest.images,
                     image_counter |-> rest.image_counter]
            ELSE extract_blips_unnumbered(Tail(blips), imgs, counter)

\* _extract_paragraph_images over the blips from position 1 on; the result
\* carries the image nodes and the advanced self.image_counter
RECURSIVE extract_blips(_, _, _)
extract_blips(blips, imgs, counter) ==
    IF blips = <<>> THEN [images |-> <<>>, image_counter |-> counter]
    ELSE LET embed_id == Head(blips)
         IN IF embed_id # "" /\ embed_id \in DOMAIN imgs
            THEN LET image_data == imgs[embed_id]
                     mime_type == detect_image_type(image_data)
                     img == ImageNode(image_data, mime_type,
                                ImagePrefix \o str(counter + 1) \o <<".">>
                                    \o after_last_slash(mime_type))
                     rest == extract_blips(Tail(blips), imgs, counter + 1)
                 IN [images |-> <<img>> \o rest.images,
                     image_counter |-> rest.image_counter]
            ELSE extract_blips(Tail(blips), imgs, counter)

extract_paragraph_images(para, imgs, counter) ==
    extract_blips(para.blips, imgs, counter)

\* variant of is_empty_paragraph: the text is tested without strip()
is_empty_paragraph_unstripped(para) ==
    para_text(para) = <<>> /\ ~has_images(para)

\* the "skip empty paragraphs" test of _parse_paragraph
is_empty_paragraph(para) ==
    strip(para_text(para)) = <<>> /\ ~has_images(para)

\* variant of images_only_node: the images are always put in a paragraph
images_only_node_wrapped(images_found) == Node("paragraph", images_found)

\* "Paragraph with only images": the image itself, or a paragraph of images
images_only_node(images_found) ==
    IF Len(images_found) = 1 THEN images_found[1]
    ELSE Node("paragraph", images_found)

\* _parse_paragraph: the node (or None) and self.image_counter afterwards
parse_paragraph(para, imgs, counter) ==
    IF is_empty_paragraph(para)
    THEN [node |-> None, image_counter |-> counter]
    ELSE LET ex == extract_paragraph_images(para, imgs, counter)
             images_found == ex.images
             children == parse_runs(para.runs) \o images_found
             result ==
                IF images_found # <<>> /\ strip(para_text(para)) = <<>>
                THEN images_only_node(images_found)
                ELSE IF children = <<>> THEN None
                ELSE IF is_blockquote_style(style_name_of(para))
                     THEN Node("blockquote", children)
                     ELSE Node("paragraph", children)
         IN [node |-> result, image_counter |-> ex.image_counter]

parse_heading(para) ==
    LET level == heading_level(style_name_of(para))
        children == parse_runs(para.runs)
    IN HeadingNode(level,
                   IF children # <<>> THEN children ELSE <<text(para_text(para))>>)

\* a parsed list under construction: nodes and self.image_counter afterwards
Parsed(nodes, counter) == [nodes |-> nodes, image_counter |-> counter]

\* "if node: cell_content.append(node)" in front of the rest of the cell
cell_append(r, rest) ==
    Parsed((IF r.node # None THEN <<r.node>> ELSE <<>>) \o rest.nodes,
           rest.image_counter)

\* the paragraphs of one cell, empties dropped
RECURSIVE parse_cell_paragraphs(_, _, _)
cell_paragraphs_from(paras, imgs, r) ==
    cell_append(r, parse_cell_paragraphs(Tail(paras), imgs, r.image_counter))

parse_cell_paragraphs(paras, imgs, counter) ==
    IF paras = <<>> THEN Parsed(<<>>, counter)
    ELSE cell_paragraphs_from(paras, imgs, parse_paragraph(Head(paras), imgs, counter))

\* a container node in front of the rest of the row or table
wrap_append(node_type, c, rest) ==
    Parsed(<<Node(node_type, c.nodes)>> \o rest.nodes, rest.image_counter)

\* the cells of one row
RECURSIVE parse_cells(_, _, _)
cells_from(cells, imgs, c) ==
    wrap_append("table_cell", c, parse_cells(Tail(cells), imgs, c.image_counter))

parse_cells(cells, imgs, counter) ==
    IF cells = <<>> THEN Parsed(<<>>, counter)
    ELSE cells_from(cells, imgs, parse_cell_paragraphs(Head(cells), imgs, counter))

\* the rows of the table
RECURSIVE parse_rows(_, _, _)
rows_from(rows, imgs, r) ==
    wrap_append("table_row", r, parse_rows(Tail(rows), imgs, r.image_counter))

parse_rows(rows, imgs, counter) ==
    IF rows = <<>> THEN Parsed(<<>>, counter)
    ELSE rows_from(rows, imgs, parse_cells(Head(rows), imgs, counter))

\* TableNode(children=rows) with the counter the parsing ended on
table_result(r) == [node |-> TableNode(r.nodes), image_counter |-> r.image_counter]

\* _parse_table: the Table node and self.image_counter afterwards
parse_table(table, imgs, counter) ==
    table_result(parse_rows(table.rows, imgs, counter))

(***************************************************************************)
(* The source document: the image relationships of the package and the     *)
(* body elements the loop of _extract_chapters can meet.                   *)
(***************************************************************************)
\* docx.part.rels restricted to image relationships: rId -> blob
SourceRels ==
    [rId1 |-> <<137, 80, 78, 71, 13>>,
     rId2 |-> <<71, 73, 70, 56>>]

PlainRun(t) == Run(t, FALSE, FALSE)

T_ChapterOne == <<"C", "h", "a", "p", "t", "e", "r", " ", "O", "n", "e">>
T_HelloWorld == <<"H", "e", "l", "l", "o", " ", "w", "o", "r", "l", "d", ".">>
T_Intro == <<"I", "n", "t", "r", "o">>
T_Sec == <<"S", "e", "c">>
T_Q == <<"Q">>
S_Quot == <<"Q", "u", "o", "t">>
S_Heading == <<"H", "e", "a", "d", "i", "n", "g">>
S_Title12v3 == <<"T", "i", "t", "l", "e", " ", "1", "2", " ", "v", "3">>
S_Chapter0 == <<"C", "h", "a", "p", "t", "e", "r", " ", "0">>
S_HEADING30QUOTE ==
    <<"H", "E", "A", "D", "I", "N", "G", " ", "3", "0", " ", "Q", "U", "O", "T", "E">>

\* the three paragraphs of the "Chapter One" scenario
P_ChapterOne == Para(S_Heading1, <<PlainRun(T_ChapterOne)>>, <<>>)
P_Hello == Para(S_Normal, <<PlainRun(T_HelloWorld)>>, <<>>)
P_Empty == Para(S_Normal, <<PlainRun(<<>>)>>, <<>>)

\* empty paragraphs of the other styles (no run, or whitespace only)
P_EmptyChapterHeading == Para(S_Chapter0, <<>>, <<>>)
P_EmptySectionHeading == Para(S_Heading2, <<>>, <<>>)
P_EmptyQuote == Para(S_Quote, <<PlainRun(<<" ">>)>>, <<>>)

\* styles that match several pattern lists, or one list in one direction only
P_Section == Para(S_HEADING30QUOTE, <<PlainRun(T_Sec)>>, <<>>)
P_Quote == Para(S_Quote, <<Run(T_Q, TRUE, TRUE)>>, <<>>)
P_Quot == Para(S_Quot, <<PlainRun(T_Q)>>, <<>>)
P_Heading == Para(S_Heading, <<PlainRun(T_Intro)>>, <<>>)
P_Title12 ==
    Para(S_Title12v3, <<PlainRun(<<" ">>), PlainRun(T_Intro), PlainRun(<<" ">>)>>, <<>>)

\* paragraphs with embedded images and no text: one image; three blips of
\* which the first names no image relationship
P_Image == Para(S_Normal, <<>>, <<"rId1">>)
P_Images == Para(S_Quote, <<>>, <<"rId9", "rId2", "rId1">>)

Paragraphs ==
    {P_ChapterOne, P_Hello, P_Empty, P_EmptyChapterHeading,
     P_EmptySectionHeading, P_EmptyQuote, P_Section, P_Quote, P_Quot,
     P_Heading, P_Title12, P_Image}

\* a table of two rows: two cells (text and an empty paragraph; no
\* paragraph), then one cell with images
T_Mixed == Tbl(<< << <<P_Hello, P_Empty>>, <<>> >>, << <<P_Image, P_Images>> >> >>)

Tables == {T_Mixed}

(***************************************************************************)
(* State: one DocxParser.parse call; the Document handed to the renderers,  *)
(* the renderer instances and the render calls in flight; the value a      *)
(* directly called function returned.                                      *)
(***************************************************************************)
VARIABLES
    pc,               \* "start", "scan" (inside the for loop) or "done" (returned)
    stream,           \* the body elements iterated over so far
    images,           \* self.images
    image_counter,    \* self.image_counter
    chapters,         \* local chapters; the returned list once pc = "done"
    current_chapter,  \* local current_chapter
    chapter_counter,  \* local chapter_counter
    node,             \* local node of the loop body
    document,         \* the Document parse() returned, given to render()
    config,           \* the TypesetConfig the renderers are made with
    image_items,      \* self.image_items of each EpubRenderer instance
    renders,          \* the render() calls: renderer, position and locals
    ret               \* the call made last and the value it returned

parser_vars ==
    <<pc, stream, images, image_counter, chapters, current_chapter,
      chapter_counter, node>>

render_vars == <<document, config, image_items, renders>>

vars ==
    <<pc, stream, images, image_counter, chapters, current_chapter,
      chapter_counter, node, document, config, image_items, renders, ret>>

\* no function has been called directly yet
NoCall == [call |-> "", args |-> <<>>, value |-> None]

\* DocxParser.__init__
Init ==
    /\ pc = "start"
    /\ stream = <<>>
    /\ images = [k \in {} |-> <<>>]
    /\ image_counter = 0
    /\ chapters = <<>>
    /\ current_chapter = None
    /\ chapter_counter = 0
    /\ node = None
    /\ document = None
    /\ config = TypesetConfig
    /\ image_items = <<>>
    /\ renders = <<>>
    /\ ret = NoCall

\* _extract_images: "self.images[rel.rId] = image_data" for every image
\* relationship; reading a blob may raise, the relationship is then skipped.
\* The entries self.images already holds stay, and a Document an earlier
\* parse() of this instance returned has this dict as its images.
\* Afterwards _extract_chapters starts with its three locals initialised.
extract_images ==
    /\ pc = "start"
    /\ \E readable \in SUBSET DOMAIN SourceRels :
          images' = [k \in readable |-> SourceRels[k]] @@ images
    /\ document' =
          IF document = None THEN document
          ELSE [document EXCEPT !.images = images']
    /\ pc' = "scan"
    /\ chapters' = <<>>
    /\ current_chapter' = None
    /\ chapter_counter' = 0
    /\ UNCHANGED <<stream, image_counter, node, config, image_items, renders, ret>>

\* variant of save_chapter: the open chapter is not appended
save_chapter_forgotten(chs, cur) == chs

\* "if current_chapter: chapters.append(current_chapter)"
save_chapter(chs, cur) ==
    IF cur # None THEN Append(chs, cur) ELSE chs

\* variant of default_chapters: an empty list is returned as it is
default_chapters_missing(chs) == chs

\* "if not chapters: chapters = [Chapter(title="", ..., id="chapter-1")]"
default_chapters(chs) ==
    IF chs = <<>>
    THEN <<Chapter(<<>>, 1, <<>>, ChapterDash \o <<"1">>)>>
    ELSE chs

\* variant of parse_block: the blockquote list is consulted before the
\* section-heading list
parse_block_quote_first(para, imgs, counter) ==
    IF is_section_heading(style_name_of(para))
       /\ ~is_blockquote_style(style_name_of(para))
    THEN [node |-> parse_heading(para), image_counter |-> counter]
    ELSE parse_paragraph(para, imgs, counter)

\* the node of a paragraph met while a chapter is open: a heading for a
\* section-heading style, the paragraph rule otherwise
parse_block(para, imgs, counter) ==
    IF is_section_heading(style_name_of(para))
    THEN [node |-> parse_heading(para), image_counter |-> counter]
    ELSE parse_paragraph(para, imgs, counter)

\* branch "if self._is_chapter_heading(style_name)"
start_new_chapter(para) ==
    /\ chapters' = save_chapter(chapters, current_chapter)
    /\ chapter_counter' = chapter_counter + 1
    /\ current_chapter' =
          Chapter(IF strip(para_text(para)) # <<>>
                  THEN strip(para_text(para))
                  ELSE ChapterSp \o str(chapter_counter + 1),
                  heading_level(style_name_of(para)),
                  <<>>,
                  ChapterDash \o str(chapter_counter + 1))
    /\ UNCHANGED <<node, image_counter>>

\* variant of add_to_current_chapter: the node is appended without the
\* "if node" test
add_to_current_chapter_unguarded(para) ==
    LET r == parse_block(para, images, image_counter)
    IN /\ node' = r.node
       /\ image_counter' = r.image_counter
       /\ current_chapter' =
             [current_chapter EXCEPT !.content = Append(@, r.node)]
       /\ UNCHANGED <<chapters, chapter_counter>>

\* variant of add_to_current_chapter: the node is put in front of the content
add_to_current_chapter_front(para) ==
    LET r == parse_block(para, images, image_counter)
    IN /\ node' = r.node
       /\ image_counter' = r.image_counter
       /\ current_chapter' =
             IF r.node # None
             THEN [current_chapter EXCEPT !.content = <<r.node>> \o @]
             ELSE current_chapter
       /\ UNCHANGED <<chapters, chapter_counter>>

\* branch "elif current_chapter"
add_to_current_chapter(para) ==
    LET r == parse_block(para, images, image_counter)
    IN /\ node' = r.node
       /\ image_counter' = r.image_counter
       /\ current_chapter' =
             IF r.node # None
             THEN [current_chapter EXCEPT !.content = Append(@, r.node)]
             ELSE current_chapter
       /\ UNCHANGED <<chapters, chapter_counter>>

\* branch "else": content before the first chapter heading
content_before_first_chapter(para) ==
    LET r == parse_paragraph(para, images, image_counter)
    IN /\ node' = r.node
       /\ image_counter' = r.image_counter
       /\ IF r.node # None /\ strip(get_text(r.node)) # <<>>
          THEN /\ chapter_counter' = chapter_counter + 1
               /\ current_chapter' =
                     Chapter(<<>>, 1, <<r.node>>,
                             ChapterDash \o str(chapter_counter + 1))
          ELSE UNCHANGED <<chapter_counter, current_chapter>>
       /\ UNCHANGED chapters

\* One iteration of the loop on a paragraph element
extract_chapters_paragraph(para) ==
    /\ pc = "scan"
    /\ Len(stream) < MaxBlocks
    /\ stream' = Append(stream, para)
    /\ IF is_chapter_heading(style_name_of(para))
       THEN start_new_chapter(para)
       ELSE IF current_chapter # None
       THEN add_to_current_chapter(para)
       ELSE content_before_first_chapter(para)
    /\ UNCHANGED <<pc, images, render_vars, ret>>

\* variant of extract_chapters_table: a table met before any chapter opens
\* an implicit chapter, as leading paragraphs do
extract_chapters_table_implicit(table) ==
    /\ pc = "scan"
    /\ Len(stream) < MaxBlocks
    /\ stream' = Append(stream, table)
    /\ LET r == parse_table(table, images, image_counter)
       IN /\ node' = r.node
          /\ image_counter' = r.image_counter
          /\ IF current_chapter # None
             THEN /\ current_chapter' =
                        [current_chapter EXCEPT !.content = Append(@, r.node)]
                  /\ UNCHANGED chapter_counter
             ELSE /\ chapter_counter' = chapter_counter + 1
                  /\ current_chapter' =
                        Chapter(<<>>, 1, <<r.node>>,
                                ChapterDash \o str(chapter_counter + 1))
    /\ UNCHANGED <<pc, images, chapters, render_vars, ret>>

\* One iteration of the loop on a table element
extract_chapters_table(table) ==
    /\ pc = "scan"
    /\ Len(stream) < MaxBlocks
    /\ stream' = Append(stream, table)
    /\ LET r == parse_table(table, images, image_counter)
       IN /\ node' = r.node
          /\ image_counter' = r.image_counter
          /\ current_chapter' =
                IF current_chapter # None /\ r.node # None
                THEN [current_chapter EXCEPT !.content = Append(@, r.node)]
                ELSE current_chapter
    /\ UNCHANGED <<pc, images, chapters, chapter_counter, render_vars, ret>>

\* After the loop: the last chapter is saved, an empty result is replaced by
\* one empty chapter, and the list is returned
extract_chapters_return ==
    /\ pc = "scan"
    /\ chapters' = default_chapters(save_chapter(chapters, current_chapter))
    /\ pc' = "done"
    /\ UNCHANGED <<stream, images, image_counter, current_chapter,
                   chapter_counter, node, render_vars, ret>>

Next ==
    \/ extract_images
    \/ \E para \in Paragraphs : extract_chapters_paragraph(para)
    \/ \E table \in Tables : extract_chapters_table(table)
    \/ extract_chapters_return

Spec == Init /\ [][Next]_vars

(***************************************************************************)
(* Vocabulary of the properties.                                           *)
(***************************************************************************)
\* a loop iteration was taken: Block is the element it consumed
Stepped == stream' # stream

Block == stream'[Len(stream')]

LastBlock == stream[Len(stream)]

IsParagraph(b) == b.tag = "p"

IsTable(b) == b.tag = "tbl"

\* the paragraph has non-whitespace text
HasText(para) == \E i \in DOMAIN para_text(para) : ~IsSpace(para_text(para)[i])

\* the paragraph embeds at least one image of the package
HasLocatedImage(para) == \E i \in DOMAIN para.blips : para.blips[i] \in DOMAIN images

\* non-empty paragraph: non-whitespace text or an embedded image
NonEmpty(para) == HasText(para) \/ HasLocatedImage(para)

\* empty paragraph: no text and no embedded image
Empty(para) == ~HasText(para) /\ para.blips = <<>>

\* bidirectional, case-insensitive containment of a style name and some
\* pattern of a list
MatchesList(patterns, style) ==
    \E k \in DOMAIN patterns :
       \/ In(lower(patterns[k]), lower(style))
       \/ In(lower(style), lower(patterns[k]))

MatchesChapter(style) == MatchesList(style_mapping.chapter_heading_styles, style)

MatchesSection(style) == MatchesList(style_mapping.section_heading_styles, style)

MatchesBlockquote(style) == MatchesList(style_mapping.blockquote_styles, style)

\* "chapter-{n}" and "Chapter {n}"
ChapterId(n) == <<"c", "h", "a", "p", "t", "e", "r", "-">> \o str(n)

ChapterTitle(n) == <<"C", "h", "a", "p", "t", "e", "r", " ">> \o str(n)

\* the chapters of the Document under construction, closed ones first
AllChapters ==
    IF pc = "done" \/ current_chapter = None THEN chapters
    ELSE Append(chapters, current_chapter)

(***************************************************************************)
(* C1: the returned chapter list is never empty; a stream with zero blocks *)
(* yields exactly one chapter with empty title, empty content and the      *)
(* default id "chapter-1".                                                 *)
(***************************************************************************)
C1_ChaptersNeverEmpty ==
    pc = "done" =>
       /\ Len(chapters) >= 1
       /\ stream = <<>> =>
             /\ Len(chapters) = 1
             /\ chapters[1].title = <<>>
             /\ chapters[1].content = <<>>
             /\ chapters[1].id = ChapterId(1)

\* a build of a source with zero blocks has returned
C1_Witness == pc = "done" /\ stream = <<>> /\ Len(chapters) = 1

(***************************************************************************)
(* C2: no two chapters of a built Document have the same id.               *)
(***************************************************************************)
C2_UniqueChapterIds ==
    pc = "done" =>
       \A i, j \in DOMAIN chapters :
          i # j => chapters[i].id # chapters[j].id

\* a Document with two chapters of the same title has been built
C2_Witness ==
    /\ pc = "done"
    /\ \E i, j \in DOMAIN chapters :
          i # j /\ chapters[i].title = chapters[j].title

(***************************************************************************)
(* C3: while no chapter is open, every non-empty paragraph that is not a   *)
(* chapter heading opens an implicit chapter with empty title whose        *)
(* content starts with the node of that paragraph.                         *)
(***************************************************************************)
C3_LeadingContentKept ==
    [][(/\ Stepped
        /\ current_chapter = None
        /\ IsParagraph(Block)
        /\ NonEmpty(Block)
        /\ ~is_chapter_heading(Block.style))
       => (/\ current_chapter' # None
           /\ current_chapter'.title = <<>>
           /\ node' # None
           /\ current_chapter'.content = <<node'>>)]_vars

(***************************************************************************)
(* C4 (as stated): an empty paragraph leaves the builder state unchanged,  *)
(* whatever its style and whether or not a chapter is open.                *)
(***************************************************************************)
C4_EmptyParagraphNoEffect_AnyStyle ==
    [][(Stepped /\ IsParagraph(Block) /\ Empty(Block))
       => UNCHANGED <<chapters, current_chapter, chapter_counter>>]_vars

(***************************************************************************)
(* C4 (amended): an empty paragraph leaves the builder state unchanged     *)
(* unless its style is a chapter-heading style, or a section-heading style *)
(* while a chapter is open.  An empty chapter-heading paragraph opens a    *)
(* chapter titled "Chapter n"; an empty section-heading paragraph met      *)
(* while a chapter is open appends one Heading node with empty text.       *)
(***************************************************************************)
C4_EmptyParagraphNoEffect ==
    [][(Stepped /\ IsParagraph(Block) /\ Empty(Block))
       => IF MatchesChapter(Block.style)
          THEN /\ chapter_counter' = chapter_counter + 1
               /\ current_chapter'.title = ChapterTitle(chapter_counter')
          ELSE IF MatchesSection(Block.style) /\ current_chapter # None
          THEN /\ Len(current_chapter'.content) = Len(current_chapter.content) + 1
               /\ node'.node_type = "heading"
               /\ get_text(node') = para_text(Block)
               /\ UNCHANGED <<chapters, chapter_counter>>
          ELSE UNCHANGED <<chapters, current_chapter, chapter_counter>>]_vars

\* a whitespace-only paragraph of a blockquote style was met while a chapter
\* was open, and the chapter has no content
C4_Witness ==
    /\ pc = "scan"
    /\ Len(stream) >= 2
    /\ LastBlock = P_EmptyQuote
    /\ current_chapter # None
    /\ current_chapter.content = <<>>

(***************************************************************************)
(* C5: a chapter-heading paragraph appends the open chapter (if any) to    *)
(* the finished list exactly once and opens a chapter with the trimmed     *)
(* text as title ("Chapter n" when empty), the extracted heading level,    *)
(* empty content and id "chapter-n", n counting the chapters opened so     *)
(* far; at the end of the stream the open chapter is appended exactly once.*)
(***************************************************************************)
Occurrences(chs, ch) == Cardinality({i \in DOMAIN chs : chs[i] = ch})

\* C5: a chapter heading saves the open chapter once and opens chapter n with
\* title, level, empty content and id chapter-n; the end of the stream saves
\* the open chapter once
C5_ChapterHeadingTransition ==
    [][/\ (Stepped /\ IsParagraph(Block) /\ MatchesChapter(Block.style))
          => LET n == Len(chapters') + 1
             IN /\ chapters' = IF current_chapter # None
                               THEN Append(chapters, current_chapter)
                               ELSE chapters
                /\ current_chapter # None
                      => Occurrences(chapters', current_chapter) = 1
                /\ current_chapter' =
                      [title |-> IF HasText(Block)
                                 THEN strip(para_text(Block))
                                 ELSE ChapterTitle(n),
                       level |-> heading_level(Block.style),
                       content |-> <<>>,
                       id |-> ChapterId(n)]
       /\ (pc = "scan" /\ pc' = "done" /\ current_chapter # None)
          => /\ chapters' = Append(chapters, current_chapter)
             /\ Occurrences(chapters', current_chapter) = 1]_vars

\* two chapters were opened by headings, the second one by an empty heading,
\* and the stream has ended
C5_Witness ==
    /\ pc = "done"
    /\ Len(chapters) = 2
    /\ chapters[1].id = ChapterId(1)
    /\ chapters[2].title = ChapterTitle(2)

(***************************************************************************)
(* C6: the "Chapter One" scenario.                                         *)
(***************************************************************************)
ScenarioStream == <<P_ChapterOne, P_Hello, P_Empty>>

ScenarioContent ==
    <<[node_type |-> "paragraph",
       children |-> <<[node_type |-> "text", children |-> <<>>,
                       text |-> T_HelloWorld]>>]>>

\* C6 (as stated): the scenario yields exactly one chapter with title
\* "Chapter One", id "chapter-one" and content [Paragraph("Hello world.")]
C6_Scenario_SlugId ==
    (pc = "done" /\ stream = ScenarioStream) =>
       /\ Len(chapters) = 1
       /\ chapters[1].title = T_ChapterOne
       /\ chapters[1].id = <<"c", "h", "a", "p", "t", "e", "r", "-", "o", "n", "e">>
       /\ chapters[1].content = ScenarioContent

\* C6 (amended): the scenario yields exactly one chapter with title
\* "Chapter One", id "chapter-1" and content [Paragraph("Hello world.")]
C6_Scenario ==
    (pc = "done" /\ stream = ScenarioStream) =>
       /\ Len(chapters) = 1
       /\ chapters[1].title = T_ChapterOne
       /\ chapters[1].id = <<"c", "h", "a", "p", "t", "e", "r", "-", "1">>
       /\ chapters[1].content = ScenarioContent

\* the scenario has been built
C6_Witness == pc = "done" /\ stream = ScenarioStream /\ Len(chapters) = 1

OpensChapter ==
    /\ chapter_counter' = chapter_counter + 1
    /\ current_chapter' # None
    /\ current_chapter'.content = <<>>

\* the style name contains some blockquote pattern: a match of the blockquote
\* list whichever way containment is read
ContainsBlockquotePattern(style) ==
    \E k \in DOMAIN style_mapping.blockquote_styles :
       In(lower(style_mapping.blockquote_styles[k]), lower(style))

C9_BidirectionalMatch ==
    [][(Stepped /\ IsParagraph(Block) /\ HasText(Block))
       => /\ OpensChapter <=> MatchesChapter(Block.style)
          /\ (~MatchesChapter(Block.style) /\ current_chapter # None)
                => (node'.node_type = "heading" <=> MatchesSection(Block.style))
          /\ (/\ ~MatchesChapter(Block.style)
              /\ current_chapter = None \/ ~MatchesSection(Block.style))
                => (node'.node_type = "blockquote"
                       <=> MatchesBlockquote(Block.style))]_vars

(***************************************************************************)
(* C10: the heading level is the value of the first run of decimal digits  *)
(* of the style name clamped to 1..6, and 1 when there is no digit; every  *)
(* Chapter.level and every Heading level of the Document lies in 1..6.     *)
(***************************************************************************)
RECURSIVE Pow10(_)
Pow10(k) == IF k = 0 THEN 1 ELSE 10 * Pow10(k - 1)

RECURSIVE SumTo(_, _)
SumTo(f, k) == IF k = 0 THEN 0 ELSE f[k] + SumTo(f, k - 1)

\* the value of the first maximal run of digits of s, clamped; 1 without digit
FirstDigitRunLevel(s) ==
    IF \A i \in DOMAIN s : ~IsDigit(s[i]) THEN 1
    ELSE LET first == CHOOSE i \in DOMAIN s :
                         IsDigit(s[i]) /\ \A h \in 1..(i - 1) : ~IsDigit(s[h])
             last == CHOOSE j \in first..Len(s) :
                        /\ \A h \in first..j : IsDigit(s[h])
                        /\ j = Len(s) \/ ~IsDigit(s[j + 1])
             terms == [k \in 1..(last - first + 1) |->
                          DigitValue(s[first + k - 1]) * Pow10(last - first + 1 - k)]
             value == SumTo(terms, last - first + 1)
         IN IF value < 1 THEN 1 ELSE IF value > 6 THEN 6 ELSE value

LevelsInRange ==
    \A c \in DOMAIN AllChapters :
       /\ AllChapters[c].level \in 1..6
       /\ \A i \in DOMAIN AllChapters[c].content :
             AllChapters[c].content[i].node_type = "heading"
                => AllChapters[c].content[i].level \in 1..6

\* C10: chapter and Heading levels are the clamped value of the first digit
\* run of the style name, and all levels of the Document lie in 1..6
C10_HeadingLevel ==
    [][/\ (Stepped /\ IsParagraph(Block) /\ MatchesChapter(Block.style))
          => current_chapter'.level = FirstDigitRunLevel(Block.style)
       /\ (/\ Stepped /\ IsParagraph(Block)
           /\ ~MatchesChapter(Block.style)
           /\ MatchesSection(Block.style)
           /\ current_chapter # None)
          => /\ node'.node_type = "heading"
             /\ node'.level = FirstDigitRunLevel(Block.style)
       /\ LevelsInRange']_vars

\* chapters at level 1 (digits "0") and level 6 (digits "12", a later run "3"
\* ignored) and a Heading at level 6 (digits "30") have been built
C10_Witness ==
    /\ pc = "done"
    /\ stream = <<P_EmptyChapterHeading, P_Title12, P_Section>>
    /\ chapters[1].level = 1
    /\ chapters[2].level = 6
    /\ chapters[2].content[1].node_type = "heading"
    /\ chapters[2].content[1].level = 6

(***************************************************************************)
(* Direct calls of DocxParser._parse_runs and DocxParser._parse_paragraph  *)
(* on a parser whose images have been extracted.                           *)
(***************************************************************************)
MaxLeadRuns == 1
MaxBlips == 2

T_a == <<"a">>

\* sequences over S of length at most n
SeqsUpTo(S, n) == UNION {[1..k -> S] : k \in 0..n}

\* runs with every combination of the five flags, with and without text
FormattedRuns ==
    {Run5(t, i, b, k, p, q) :
        t \in {<<>>, T_a}, i \in BOOLEAN, b \in BOOLEAN, k \in BOOLEAN,
        p \in BOOLEAN, q \in BOOLEAN}

\* runs in front of them: no text, whitespace, bold text
LeadRuns == {PlainRun(<<>>), PlainRun(<<" ">>), Run(T_Q, FALSE, TRUE)}

RunLists ==
    {lead \o <<r>> : lead \in SeqsUpTo(LeadRuns, MaxLeadRuns), r \in FormattedRuns}

\* embed ids of blips: two image relationships and one that names none
BlipLists == SeqsUpTo({"rId1", "rId2", "rId9"}, MaxBlips)

\* the runs of the paragraphs: the last run has formatting and no text, or
\* text in two containers
ParagraphRunLists ==
    {lead \o <<r>> :
        lead \in SeqsUpTo(LeadRuns, MaxLeadRuns),
        r \in {Run5(<<>>, FALSE, TRUE, FALSE, FALSE, FALSE),
               Run5(T_a, TRUE, FALSE, FALSE, FALSE, TRUE)}}

ParagraphInputs ==
    {Para(style, runs, blips) :
        style \in {S_Normal, S_Quote}, runs \in ParagraphRunLists,
        blips \in BlipLists}

\* DocxParser.__init__ and _extract_images (a blob may be unreadable)
InitParagraph ==
    /\ pc = "call"
    /\ stream = <<>>
    /\ \E readable \in {{"rId1", "rId2"}, {"rId2"}} :
          images = [k \in readable |-> SourceRels[k]]
    /\ image_counter = 0
    /\ chapters = <<>>
    /\ current_chapter = None
    /\ chapter_counter = 0
    /\ node = None
    /\ document = None
    /\ config = TypesetConfig
    /\ image_items = <<>>
    /\ renders = <<>>
    /\ ret = NoCall

\* self._parse_runs(runs)
parse_runs_call(runs) ==
    /\ pc = "call"
    /\ pc' = "return"
    /\ ret' = [call |-> "_parse_runs", args |-> <<runs>>,
               value |-> parse_runs(runs)]
    /\ UNCHANGED <<stream, images, image_counter, chapters, current_chapter,
                   chapter_counter, node, render_vars>>

\* self._parse_paragraph(para)
parse_paragraph_call(para) ==
    /\ pc = "call"
    /\ pc' = "return"
    /\ LET r == parse_paragraph(para, images, image_counter)
       IN /\ ret' = [call |-> "_parse_paragraph", args |-> <<para>>,
                     value |-> r.node]
          /\ image_counter' = r.image_counter
    /\ UNCHANGED <<stream, images, chapters, current_chapter, chapter_counter,
                   node, render_vars>>

NextParagraph ==
    \/ \E runs \in RunLists : parse_runs_call(runs)
    \/ \E para \in ParagraphInputs : parse_paragraph_call(para)

SpecParagraph == InitParagraph /\ [][NextParagraph]_vars

(***************************************************************************)
(* C11: a run with text becomes its Text leaf wrapped by one container per *)
(* set flag, from inside out emphasis, strong, strikethrough, superscript, *)
(* subscript; a run without text yields no node.                           *)
(***************************************************************************)
\* the containers in nesting order, innermost first, with the flag of each
Wrappers ==
    << [flag |-> "italic", node_type |-> "emphasis"],
       [flag |-> "bold", node_type |-> "strong"],
       [flag |-> "strike", node_type |-> "strikethrough"],
       [flag |-> "superscript", node_type |-> "superscript"],
       [flag |-> "subscript", node_type |-> "subscript"] >>

\* the leaf of run wrapped by the containers of the first k flags that are set
RECURSIVE Wrapped(_, _)
Wrapped(run, k) ==
    IF k = 0 THEN [node_type |-> "text", children |-> <<>>, text |-> run.text]
    ELSE IF run[Wrappers[k].flag]
         THEN [node_type |-> Wrappers[k].node_type,
               children |-> <<Wrapped(run, k - 1)>>]
         ELSE Wrapped(run, k - 1)

\* the number of containers around the leaf of a single-child chain
RECURSIVE Depth(_)
Depth(n) == IF n.children = <<>> THEN 0 ELSE 1 + Depth(n.children[1])

SetFlags(run) == {k \in DOMAIN Wrappers : run[Wrappers[k].flag]}

HasRunText(run) == run.text # <<>>

\* C11: the nodes of _parse_runs are, in order, those of the runs with text,
\* each the leaf in one container per set flag in the fixed nesting order
C11_RunWrapping ==
    ret.call = "_parse_runs" =>
        LET runs == ret.args[1]
            kept == SelectSeq(runs, HasRunText)
            nodes == ret.value
        IN /\ Len(nodes) = Len(kept)
           /\ \A i \in DOMAIN kept :
                 /\ nodes[i] = Wrapped(kept[i], Len(Wrappers))
                 /\ Depth(nodes[i]) = Cardinality(SetFlags(kept[i]))
                 /\ (kept[i].bold /\ kept[i].italic /\ Depth(nodes[i]) = 2)
                    => /\ nodes[i].node_type = "strong"
                       /\ nodes[i].children[1].node_type = "emphasis"
                       /\ nodes[i].children[1].children[1].text = kept[i].text

\* a whitespace run and a run with all five flags set have been parsed
C11_Witness ==
    /\ ret.call = "_parse_runs"
    /\ Len(ret.args[1]) = 2
    /\ ret.args[1][2] = Run5(T_a, TRUE, TRUE, TRUE, TRUE, TRUE)
    /\ Len(ret.value) = 2
    /\ ret.value[2].node_type = "subscript"
    /\ Depth(ret.value[2]) = 5

(***************************************************************************)
(* C12: a paragraph without text and with k located images becomes the     *)
(* Image node (k = 1), a paragraph of the k Image nodes (k > 1), or no     *)
(* node (k = 0 and no run with text).                                      *)
(***************************************************************************)
\* the embed ids of the blips of para that name an image of the package
Located(para) == SelectSeq(para.blips, LAMBDA b : b \in DOMAIN images)

\* n is an Image node carrying the bytes of the image named embed_id
IsImageOf(n, embed_id) ==
    /\ n.node_type = "image"
    /\ n.children = <<>>
    /\ n.src = images[embed_id]

\* C12: the result of _parse_paragraph for a paragraph without text
C12_ImageOnlyParagraph ==
    (ret.call = "_parse_paragraph" /\ ~HasText(ret.args[1])) =>
        LET para == ret.args[1]
            located == Located(para)
            k == Len(located)
        IN /\ k = 1 => IsImageOf(ret.value, located[1])
           /\ k > 1 =>
                 /\ ret.value.node_type = "paragraph"
                 /\ Len(ret.value.children) = k
                 /\ \A i \in 1..k : IsImageOf(ret.value.children[i], located[i])
           /\ (k = 0 /\ \A i \in DOMAIN para.runs : ~HasRunText(para.runs[i]))
                 => ret.value = None

\* a paragraph with a whitespace run and two located images, in the order
\* rId2, rId1, has been parsed to a paragraph of two images
C12_Witness ==
    /\ ret.call = "_parse_paragraph"
    /\ ~HasText(ret.args[1])
    /\ ret.args[1].blips = <<"rId2", "rId1">>
    /\ DOMAIN images = {"rId1", "rId2"}
    /\ ret.value.node_type = "paragraph"
    /\ ret.value.children[1].src = SourceRels.rId2

(***************************************************************************)
(* Markup shared by the renderers.  A markup string is a tuple of           *)
(* characters, as every string of the model.                               *)
(***************************************************************************)
\* html.escape(s) with quote=True
EscapeChar(c) ==
    CASE c = "&" -> <<"&", "a", "m", "p", ";">>
      [] c = "<" -> <<"&", "l", "t", ";">>
      [] c = ">" -> <<"&", "g", "t", ";">>
      [] c = "\"" -> <<"&", "q", "u", "o", "t", ";">>
      [] c = "'" -> <<"&", "#", "x", "2", "7", ";">>
      [] OTHER -> <<c>>

RECURSIVE html_escape(_)
html_escape(s) ==
    IF s = <<>> THEN <<>> ELSE EscapeChar(Head(s)) \o html_escape(Tail(s))

\* "\n".join(parts)
RECURSIVE join_lines(_)
join_lines(parts) ==
    IF parts = <<>> THEN <<>>
    ELSE IF Len(parts) = 1 THEN Head(parts)
    ELSE Head(parts) \o <<"\n">> \o join_lines(Tail(parts))

\* f"<{tag}>{inner}</{tag}>"
Tag(tag, inner) ==
    <<"<">> \o tag \o <<">">> \o inner \o <<"<", "/">> \o tag \o <<">">>

\* the <figure> of an image: src, escaped alt text and optional caption
Figure(src, n) ==
    <<"<", "f", "i", "g", "u", "r", "e", ">", "<", "i", "m", "g", " ", "s", "r", "c", "=", "\"">> \o src
        \o <<"\"", " ", "a", "l", "t", "=", "\"">> \o html_escape(n.alt_text) \o <<"\"", "/", ">">>
        \o (IF n.caption # None /\ n.caption # <<>>
             THEN Tag(<<"f", "i", "g", "c", "a", "p", "t", "i", "o", "n">>, html_escape(n.caption))
             ELSE <<>>)
        \o <<"<", "/", "f", "i", "g", "u", "r", "e", ">">>

\* an empty dict
EmptyDict == [k \in {} |-> <<>>]

(***************************************************************************)
(* EpubRenderer: the tree walk.  id(node) is the place of the node in the  *)
(* Document, the chapter index followed by the child indices down to it:   *)
(* the builder makes a new object for every node.                          *)
(***************************************************************************)
\* the ImageNode branch of _node_to_html; items is self.image_items
epub_image(items, n, id) ==
    Figure(IF id \in DOMAIN items THEN items[id].file_name ELSE n.filename, n)

\* variant of epub_default: an unknown kind is wrapped in a <div>
epub_default_wrapped(inner) == Tag(<<"d", "i", "v">>, inner)

\* "case _": only the children are rendered
epub_default(inner) == inner

RECURSIVE epub_node_to_html(_, _, _)
RECURSIVE epub_render_children(_, _, _)
epub_render_children(items, n, id) ==
    join([i \in DOMAIN n.children |->
            epub_node_to_html(items, n.children[i], Append(id, i))])

epub_node_to_html(items, n, id) ==
    IF IsImageNode(n) THEN epub_image(items, n, id)
    ELSE CASE n.node_type = "paragraph" -> Tag(<<"p">>, epub_render_children(items, n, id))
           [] n.node_type = "heading" ->
                Tag(<<"h">> \o str(IF IsHeadingNode(n) THEN n.level ELSE 2), epub_render_children(items, n, id))
           [] n.node_type = "strong" -> Tag(<<"s", "t", "r", "o", "n", "g">>, epub_render_children(items, n, id))
           [] n.node_type = "emphasis" -> Tag(<<"e", "m">>, epub_render_children(items, n, id))
           [] n.node_type = "strikethrough" -> Tag(<<"d", "e", "l">>, epub_render_children(items, n, id))
           [] n.node_type = "superscript" -> Tag(<<"s", "u", "p">>, epub_render_children(items, n, id))
           [] n.node_type = "subscript" -> Tag(<<"s", "u", "b">>, epub_render_children(items, n, id))
           [] n.node_type = "text" ->
                IF IsTextNode(n) THEN html_escape(n.text) ELSE <<>>
           [] n.node_type = "link" ->
                IF IsLinkNode(n)
                THEN <<"<", "a", " ", "h", "r", "e", "f", "=", "\"">> \o html_escape(n.url)
                        \o <<"\"", ">">> \o epub_render_children(items, n, id) \o <<"<", "/", "a", ">">>
                ELSE epub_render_children(items, n, id)
           [] n.node_type = "blockquote" ->
                Tag(<<"b", "l", "o", "c", "k", "q", "u", "o", "t", "e">>, epub_render_children(items, n, id))
           [] n.node_type = "list" ->
                Tag(IF IsListNode(n) /\ n.ordered THEN <<"o", "l">> ELSE <<"u", "l">>, epub_render_children(items, n, id))
           [] n.node_type = "list_item" -> Tag(<<"l", "i">>, epub_render_children(items, n, id))
           [] n.node_type = "table" -> Tag(<<"t", "a", "b", "l", "e">>, epub_render_children(items, n, id))
           [] n.node_type = "table_row" -> Tag(<<"t", "r">>, epub_render_children(items, n, id))
           [] n.node_type = "table_cell" -> Tag(<<"t", "d">>, epub_render_children(items, n, id))
           [] n.node_type = "code_block" ->
                <<"<", "p", "r", "e", ">">> \o Tag(<<"c", "o", "d", "e">>, epub_render_children(items, n, id)) \o <<"<", "/", "p", "r", "e", ">">>
           [] n.node_type = "code" -> Tag(<<"c", "o", "d", "e">>, epub_render_children(items, n, id))
           [] n.node_type = "horizontal_rule" -> <<"<", "h", "r", "/", ">">>
           [] n.node_type = "page_break" ->
                <<"<", "d", "i", "v", " ", "c", "l", "a", "s", "s", "=", "\"", "p", "a", "g", "e", "-", "b", "r", "e", "a", "k", "\"", ">", "<", "/", "d", "i", "v", ">">>
           [] OTHER -> epub_default(epub_render_children(items, n, id))

\* EpubRenderer._render_nodes for the content of the chapter with index id
epub_render_nodes(items, nodes, id) ==
    join_lines([i \in DOMAIN nodes |->
                  epub_node_to_html(items, nodes[i], Append(id, i))])

(***************************************************************************)
(* PdfRenderer: the tree walk.                                             *)
(***************************************************************************)
B64Alphabet ==
    UpperLetters \o LowerLetters \o Digits \o <<"+", "/">>

B64(k) == B64Alphabet[k + 1]

\* base64.b64encode(data).decode("utf-8")
RECURSIVE b64encode(_)
b64encode(data) ==
    IF data = <<>> THEN <<>>
    ELSE IF Len(data) = 1
    THEN <<B64(data[1] \div 4), B64((data[1] % 4) * 16), "=", "=">>
    ELSE IF Len(data) = 2
    THEN <<B64(data[1] \div 4),
           B64((data[1] % 4) * 16 + data[2] \div 16),
           B64((data[2] % 16) * 4), "=">>
    ELSE <<B64(data[1] \div 4),
           B64((data[1] % 4) * 16 + data[2] \div 16),
           B64((data[2] % 16) * 4 + data[3] \div 64),
           B64(data[3] % 64)>> \o b64encode(SubSeq(data, 4, Len(data)))

\* _render_image: the bytes are embedded as a data URI
render_image(n) ==
    Figure(IF n.src # <<>>
           THEN <<"d", "a", "t", "a", ":">> \o n.mime_type
                   \o <<";", "b", "a", "s", "e", "6", "4", ",">> \o b64encode(n.src)
           ELSE n.filename, n)

\* "case _": only the children are rendered
pdf_default(inner) == inner

RECURSIVE pdf_node_to_html(_)
RECURSIVE pdf_render_children(_)
\* variant of pdf_render_children: the children are put on lines of their own
pdf_render_children_lines(n) ==
    join_lines([i \in DOMAIN n.children |-> pdf_node_to_html(n.children[i])])

pdf_render_children(n) ==
    join([i \in DOMAIN n.children |-> pdf_node_to_html(n.children[i])])

pdf_node_to_html(n) ==
    IF IsImageNode(n) THEN render_image(n)
    ELSE CASE n.node_type = "paragraph" -> Tag(<<"p">>, pdf_render_children(n))
           [] n.node_type = "heading" ->
                Tag(<<"h">> \o str(IF IsHeadingNode(n) THEN n.level ELSE 2), pdf_render_children(n))
           [] n.node_type = "strong" -> Tag(<<"s", "t", "r", "o", "n", "g">>, pdf_render_children(n))
           [] n.node_type = "emphasis" -> Tag(<<"e", "m">>, pdf_render_children(n))
           [] n.node_type = "strikethrough" -> Tag(<<"d", "e", "l">>, pdf_render_children(n))
           [] n.node_type = "superscript" -> Tag(<<"s", "u", "p">>, pdf_render_children(n))
           [] n.node_type = "subscript" -> Tag(<<"s", "u", "b">>, pdf_render_children(n))
           [] n.node_type = "text" ->
                IF IsTextNode(n) THEN html_escape(n.text) ELSE <<>>
           [] n.node_type = "link" ->
                IF IsLinkNode(n)
                THEN <<"<", "a", " ", "h", "r", "e", "f", "=", "\"">> \o html_escape(n.url)
                        \o <<"\"", ">">> \o pdf_render_children(n) \o <<"<", "/", "a", ">">>
                ELSE pdf_render_children(n)
           [] n.node_type = "blockquote" ->
                Tag(<<"b", "l", "o", "c", "k", "q", "u", "o", "t", "e">>, pdf_render_children(n))
           [] n.node_type = "list" ->
                Tag(IF IsListNode(n) /\ n.ordered THEN <<"o", "l">> ELSE <<"u", "l">>, pdf_render_children(n))
           [] n.node_type = "list_item" -> Tag(<<"l", "i">>, pdf_render_children(n))
           [] n.node_type = "table" -> Tag(<<"t", "a", "b", "l", "e">>, pdf_render_children(n))
           [] n.node_type = "table_row" -> Tag(<<"t", "r">>, pdf_render_children(n))
           [] n.node_type = "table_cell" -> Tag(<<"t", "d">>, pdf_render_children(n))
           [] n.node_type = "code_block" ->
                <<"<", "p", "r", "e", ">">> \o Tag(<<"c", "o", "d", "e">>, pdf_render_children(n)) \o <<"<", "/", "p", "r", "e", ">">>
           [] n.node_type = "code" -> Tag(<<"c", "o", "d", "e">>, pdf_render_children(n))
           [] n.node_type = "horizontal_rule" -> <<"<", "h", "r", "/", ">">>
           [] n.node_type = "page_break" ->
                <<"<", "d", "i", "v", " ", "c", "l", "a", "s", "s", "=", "\"", "p", "a", "g", "e", "-", "b", "r", "e", "a", "k", "\"", ">", "<", "/", "d", "i", "v", ">">>
           [] OTHER -> pdf_default(pdf_render_children(n))

\* PdfRenderer._render_nodes
pdf_render_nodes(nodes) ==
    join_lines([i \in DOMAIN nodes |-> pdf_node_to_html(nodes[i])])

(***************************************************************************)
(* Direct calls of Node.get_text and of the tree walks of fresh renderers  *)
(* on IR trees of bounded depth.                                           *)
(***************************************************************************)
MaxDepth == 2

NodeTypes ==
    {"document", "chapter", "section", "paragraph", "heading", "image",
     "table", "table_row", "table_cell", "footnote", "blockquote", "list",
     "list_item", "code_block", "horizontal_rule", "page_break", "text",
     "emphasis", "strong", "link", "footnote_ref", "code", "superscript",
     "subscript", "strikethrough"}

T_Esc == <<"<", "&", ">", "\"", "'">>
T_Url == <<"u", "?", "a", "&", "b">>
T_ImageFile == <<"i", "m", "a", "g", "e", "_", "1", ".", "p", "n", "g">>

\* the fields of a node besides its children: a plain Node of every kind,
\* and the subclasses with the fields the renderers read
Shapes ==
    {[node_type |-> k] : k \in NodeTypes}
    \cup {[node_type |-> "heading", level |-> l] : l \in {1, 3}}
    \cup {[node_type |-> "list", ordered |-> o] : o \in BOOLEAN}
    \cup {[node_type |-> "link", url |-> T_Url],
          [node_type |-> "table", col_widths |-> <<>>]}

\* the shapes used below the root
InnerShapes ==
    {[node_type |-> "paragraph"], [node_type |-> "section"],
     [node_type |-> "strong"], [node_type |-> "link", url |-> T_Url],
     [node_type |-> "heading", level |-> 3]}

WithChildren(shape, children) == shape @@ [children |-> children]

\* an image with a caption and an alternative text, and one without bytes
CaptionedImage ==
    [ImageNode(<<137, 80, 78>>, MimePng, T_ImageFile)
        EXCEPT !.alt_text = T_Esc, !.caption = T_Esc]

Leaves ==
    {TextNode(T_a), TextNode(T_Esc), CaptionedImage,
     ImageNode(<<>>, MimePng, T_ImageFile)}

PairNodes ==
    {TextNode(T_a), TextNode(T_Esc), Node("emphasis", <<TextNode(T_Q)>>)}

ChildLists(S) ==
    {<<>>} \cup {<<c>> : c \in S} \cup {<<a, b>> : a \in PairNodes, b \in PairNodes}

RECURSIVE InnerTrees(_)
InnerTrees(d) ==
    IF d = 0 THEN Leaves
    ELSE Leaves \cup {WithChildren(s, ch) :
                        s \in InnerShapes, ch \in ChildLists(InnerTrees(d - 1))}

Trees ==
    Leaves \cup {WithChildren(s, ch) :
                   s \in Shapes, ch \in ChildLists(InnerTrees(MaxDepth - 1))}

\* a tree has been built; the renderers are fresh (EpubRenderer.__init__)
InitNodes ==
    /\ pc = "call"
    /\ stream = <<>>
    /\ images = EmptyDict
    /\ image_counter = 0
    /\ chapters = <<>>
    /\ current_chapter = None
    /\ chapter_counter = 0
    /\ node \in Trees
    /\ document = None
    /\ config = TypesetConfig
    /\ image_items = <<EmptyDict>>
    /\ renders = <<>>
    /\ ret = NoCall

\* node.get_text()
get_text_call ==
    /\ pc = "call"
    /\ pc' = "return"
    /\ ret' = [call |-> "Node.get_text", args |-> <<node>>,
               value |-> get_text(node)]
    /\ UNCHANGED <<stream, images, image_counter, chapters, current_chapter,
                   chapter_counter, node, render_vars>>

\* EpubRenderer()._node_to_html(node)
epub_node_to_html_call ==
    /\ pc = "call"
    /\ pc' = "return"
    /\ ret' = [call |-> "EpubRenderer._node_to_html", args |-> <<node>>,
               value |-> epub_node_to_html(image_items[1], node, <<>>)]
    /\ UNCHANGED <<stream, images, image_counter, chapters, current_chapter,
                   chapter_counter, node, render_vars>>

\* PdfRenderer()._node_to_html(node)
pdf_node_to_html_call ==
    /\ pc = "call"
    /\ pc' = "return"
    /\ ret' = [call |-> "PdfRenderer._node_to_html", args |-> <<node>>,
               value |-> pdf_node_to_html(node)]
    /\ UNCHANGED <<stream, images, image_counter, chapters, current_chapter,
                   chapter_counter, node, render_vars>>

\* the renderers' _render_nodes on the list of children of node
epub_render_nodes_call ==
    /\ pc = "call"
    /\ pc' = "return"
    /\ ret' = [call |-> "EpubRenderer._render_nodes", args |-> <<node>>,
               value |-> epub_render_nodes(image_items[1], node.children, <<>>)]
    /\ UNCHANGED <<stream, images, image_counter, chapters, current_chapter,
                   chapter_counter, node, render_vars>>

pdf_render_nodes_call ==
    /\ pc = "call"
    /\ pc' = "return"
    /\ ret' = [call |-> "PdfRenderer._render_nodes", args |-> <<node>>,
               value |-> pdf_render_nodes(node.children)]
    /\ UNCHANGED <<stream, images, image_counter, chapters, current_chapter,
                   chapter_counter, node, render_vars>>

NextNodes ==
    \/ get_text_call
    \/ epub_node_to_html_call
    \/ pdf_node_to_html_call
    \/ epub_render_nodes_call
    \/ pdf_render_nodes_call

SpecNodes == InitNodes /\ [][NextNodes]_vars

(***************************************************************************)
(* C13: get_text is the depth-first, left-to-right concatenation of the    *)
(* text of the Text leaves, without separators.                            *)
(***************************************************************************)
\* preorder walk with an explicit stack of the nodes still to visit
RECURSIVE DfsText(_)
DfsText(stack) ==
    IF stack = <<>> THEN <<>>
    ELSE IF "text" \in DOMAIN Head(stack)
         THEN Head(stack).text \o DfsText(Tail(stack))
         ELSE DfsText(Head(stack).children \o Tail(stack))

RECURSIVE Concat(_)
Concat(strings) ==
    IF strings = <<>> THEN <<>> ELSE Head(strings) \o Concat(Tail(strings))

\* C13: get_text of a node is the text of its Text leaves in depth-first
\* order; of a Text leaf its string, of a childless other node the empty
\* string, of any other node the concatenation of get_text of its children
C13_GetText ==
    ret.call = "Node.get_text" =>
        LET n == ret.args[1]
        IN /\ ret.value = DfsText(<<n>>)
           /\ "text" \in DOMAIN n => ret.value = n.text
           /\ ("text" \notin DOMAIN n /\ n.children = <<>>) => ret.value = <<>>
           /\ "text" \notin DOMAIN n =>
                 ret.value =
                    Concat([i \in DOMAIN n.children |-> get_text(n.children[i])])

\* get_text of a node with two children, an inline container and a Text leaf,
\* has been taken
C13_Witness ==
    /\ ret.call = "Node.get_text"
    /\ ret.args[1].children = <<Node("emphasis", <<TextNode(T_Q)>>), TextNode(T_Esc)>>
    /\ ret.value = T_Q \o T_Esc

(***************************************************************************)
(* C16: kinds without a case of their own render as their children only.   *)
(***************************************************************************)
FallbackKinds == {"document", "chapter", "section", "footnote", "footnote_ref"}

IsNodeToHtml(call) ==
    call \in {"EpubRenderer._node_to_html", "PdfRenderer._node_to_html"}

\* the rendering of child by the renderer of the call
ChildMarkup(call, child, i) ==
    IF call = "EpubRenderer._node_to_html"
    THEN epub_node_to_html(image_items[1], child, <<i>>)
    ELSE pdf_node_to_html(child)

\* C16: a node of a kind without a table entry renders, in both renderers, to
\* the concatenation of the renderings of its children, and to the empty
\* string without children
C16_FallbackRendersChildren ==
    (IsNodeToHtml(ret.call) /\ ret.args[1].node_type \in FallbackKinds) =>
        LET n == ret.args[1]
        IN /\ ret.value =
                 Concat([i \in DOMAIN n.children |->
                           ChildMarkup(ret.call, n.children[i], i)])
           /\ n.children = <<>> => ret.value = <<>>

\* a section holding a paragraph has been rendered by the paginated renderer
C16_Witness ==
    /\ ret.call = "PdfRenderer._node_to_html"
    /\ ret.args[1] = Node("section", <<Node("paragraph", <<TextNode(T_a)>>)>>)
    /\ ret.value = <<"<", "p", ">", "a", "<", "/", "p", ">">>

(***************************************************************************)
(* C17: on trees without Image nodes the two tree walks agree.             *)
(***************************************************************************)
RECURSIVE NoImage(_)
NoImage(n) ==
    /\ "src" \notin DOMAIN n
    /\ \A i \in DOMAIN n.children : NoImage(n.children[i])

\* C17: for a tree without Image node both _node_to_html return the same
\* markup, and both _render_nodes join a list of such trees the same way
C17_RenderersAgree ==
    /\ (ret.call = "EpubRenderer._node_to_html" /\ NoImage(ret.args[1]))
          => ret.value = pdf_node_to_html(ret.args[1])
    /\ (ret.call = "PdfRenderer._node_to_html" /\ NoImage(ret.args[1]))
          => ret.value = epub_node_to_html(EmptyDict, ret.args[1], <<>>)
    /\ (ret.call = "EpubRenderer._render_nodes" /\ NoImage(ret.args[1]))
          => ret.value = pdf_render_nodes(ret.args[1].children)
    /\ (ret.call = "PdfRenderer._render_nodes" /\ NoImage(ret.args[1]))
          => ret.value = epub_render_nodes(EmptyDict, ret.args[1].children, <<>>)

\* an ordered list of a link with an escaped address and two children has
\* been rendered by the reflowable renderer
C17_Witness ==
    /\ ret.call = "EpubRenderer._node_to_html"
    /\ ret.args[1].node_type = "list"
    /\ Len(ret.args[1].children) = 1
    /\ ret.args[1].children[1].node_type = "link"
    /\ Len(ret.args[1].children[1].children) = 2
    /\ In(<<"<", "o", "l", ">", "<", "a", " ">>, ret.value)
    /\ In(<<"&", "a", "m", "p", ";", "b">>, ret.value)

(***************************************************************************)
(* EpubRenderer: metadata, images, chapters and table of contents.        *)
(***************************************************************************)
\* truth value of an Optional[str]: neither None nor ""
Truthy(s) == s # None /\ s # <<>>

UrnUuid == <<"u", "r", "n", ":", "u", "u", "i", "d", ":">>

\* "identifier = meta.isbn_epub or meta.isbn or f'urn:uuid:{uuid.uuid4()}'";
\* fresh is the value uuid4() returns
identifier_of(meta, fresh) ==
    IF Truthy(meta.isbn_epub) THEN meta.isbn_epub
    ELSE IF Truthy(meta.isbn) THEN meta.isbn
    ELSE UrnUuid \o fresh

\* the metadata _set_metadata puts on the book; no cover image is set in the
\* Metadata or in the EpubConfig
set_metadata(book, meta, cfg, fresh) ==
    [book EXCEPT
        !.identifier = identifier_of(meta, fresh),
        !.title = meta.title,
        !.language = IF Truthy(meta.language) THEN meta.language ELSE cfg.language,
        !.authors = meta.authors,
        !.publisher = IF Truthy(meta.publisher) THEN meta.publisher ELSE None]

\* epub.EpubBook()
EpubBook ==
    [identifier |-> None, title |-> None, language |-> None, authors |-> <<>>,
     publisher |-> None, items |-> <<>>, toc |-> <<>>, spine |-> <<>>]

\* the EpubImage built for the image numbered counter
EpubImage(n, counter) ==
    [file_name |-> <<"i", "m", "a", "g", "e", "s", "/", "i", "m", "a", "g", "e", "_">> \o str(counter) \o <<".">>
                      \o after_last_slash(n.mime_type),
     media_type |-> n.mime_type,
     content |-> n.src]

\* variant of image_counter_start: the numbering goes on from the images the
\* renderer already holds
image_counter_resumed(items) == Cardinality(DOMAIN items)

\* "image_counter = 0" of _add_images, whatever self.image_items holds
image_counter_start(items) == 0

\* variant of store_reference: the resolved image is also put in the image
\* map of the Document
store_reference_in_document(acc, id, image) ==
    [acc EXCEPT !.image_items = (id :> image) @@ @,
                !.document.images =
                    ("resolved" :> image.content) @@ @]

\* "self.image_items[id(node)] = image"; acc carries the counter, the
\* items of the book, self.image_items and the Document
store_reference(acc, id, image) ==
    [acc EXCEPT !.image_items = (id :> image) @@ @]

\* the "if isinstance(node, ImageNode) and node.src" block of _collect_images
register_image(n, id, acc) ==
    IF IsImageNode(n) /\ n.src # <<>>
    THEN store_reference(
            [acc EXCEPT !.counter = @ + 1,
                        !.book_items = Append(@, EpubImage(n, acc.counter + 1))],
            id, EpubImage(n, acc.counter + 1))
    ELSE acc

\* _collect_images over nodes from position i on; path is id() of the parent
RECURSIVE collect_images(_, _, _, _)
collect_images(nodes, i, path, acc) ==
    IF i > Len(nodes) THEN acc
    ELSE collect_images(nodes, i + 1, path,
            collect_images(nodes[i].children, 1, Append(path, i),
                register_image(nodes[i], Append(path, i), acc)))

\* f"{index:03d}"
pad3(n) ==
    IF n < 10 THEN <<"0", "0">> \o str(n)
    ELSE IF n < 100 THEN <<"0">> \o str(n)
    ELSE str(n)

\* _create_chapter: the EpubHtml of the chapter at position index + 1; items
\* is self.image_items, cfg is self.config
create_chapter(items, cfg, chapter, index) ==
    [title |-> IF chapter.title # <<>> THEN chapter.title
               ELSE ChapterSp \o str(index + 1),
     file_name |-> <<"c", "h", "a", "p", "_">> \o pad3(index) \o <<".", "x", "h", "t", "m", "l">>,
     lang |-> cfg.language,
     content |->
        <<"<", "?", "x", "m", "l", " ", "v", "e", "r", "s", "i", "o",
          "n", "=", "\"", "1", ".", "0", "\"", " ", "e", "n", "c", "o",
          "d", "i", "n", "g", "=", "\"", "u", "t", "f", "-", "8", "\"",
          "?", ">", "\n", "<", "!", "D", "O", "C", "T", "Y", "P", "E",
          " ", "h", "t", "m", "l", ">", "\n", "<", "h", "t", "m", "l",
          " ", "x", "m", "l", "n", "s", "=", "\"", "h", "t", "t", "p",
          ":", "/", "/", "w", "w", "w", ".", "w", "3", ".", "o", "r",
          "g", "/", "1", "9", "9", "9", "/", "x", "h", "t", "m", "l",
          "\"", " ", "x", "m", "l", "n", "s", ":", "e", "p", "u", "b",
          "=", "\"", "h", "t", "t", "p", ":", "/", "/", "w", "w", "w",
          ".", "i", "d", "p", "f", ".", "o", "r", "g", "/", "2", "0",
          "0", "7", "/", "o", "p", "s", "\"", ">", "\n", "<", "h", "e",
          "a", "d", ">", "\n", " ", " ", " ", " ", "<", "t", "i", "t",
          "l", "e", ">">>
        \o html_escape(chapter.title)
        \o <<"<", "/", "t", "i", "t", "l", "e", ">", "\n", " ", " ", " ",
          " ", "<", "l", "i", "n", "k", " ", "r", "e", "l", "=", "\"",
          "s", "t", "y", "l", "e", "s", "h", "e", "e", "t", "\"", " ",
          "t", "y", "p", "e", "=", "\"", "t", "e", "x", "t", "/", "c",
          "s", "s", "\"", " ", "h", "r", "e", "f", "=", "\"", "s", "t",
          "y", "l", "e", "/", "d", "e", "f", "a", "u", "l", "t", ".",
          "c", "s", "s", "\"", "/", ">", "\n", "<", "/", "h", "e", "a",
          "d", ">", "\n", "<", "b", "o", "d", "y", ">", "\n", " ", " ",
          " ", " ", "<", "s", "e", "c", "t", "i", "o", "n", " ", "e",
          "p", "u", "b", ":", "t", "y", "p", "e", "=", "\"", "c", "h",
          "a", "p", "t", "e", "r", "\"", " ", "i", "d", "=", "\"">>
        \o chapter.id
        \o <<"\"", ">", "\n", " ", " ", " ", " ", " ", " ", " ", " ">>
        \o (IF chapter.title # <<>>
            THEN Tag(<<"h", "1">>, html_escape(chapter.title))
            ELSE <<>>)
        \o <<"\n", " ", " ", " ", " ", " ", " ", " ", " ">>
        \o epub_render_nodes(items, chapter.content, <<index + 1>>)
        \o <<"\n", " ", " ", " ", " ", "<", "/", "s", "e", "c", "t", "i",
          "o", "n", ">", "\n", "<", "/", "b", "o", "d", "y", ">", "\n",
          "<", "/", "h", "t", "m", "l", ">">>]

\* variant of create_toc: every chapter gets an entry
RECURSIVE create_toc_all(_, _)
create_toc_all(epub_chapters, ir_chapters) ==
    IF epub_chapters = <<>> \/ ir_chapters = <<>> THEN <<>>
    ELSE <<[href |-> Head(epub_chapters).file_name,
            title |-> Head(ir_chapters).title,
            uid |-> Head(ir_chapters).id]>>
         \o create_toc_all(Tail(epub_chapters), Tail(ir_chapters))

\* _create_toc: an epub.Link for every chapter with a title
RECURSIVE create_toc(_, _)
create_toc(epub_chapters, ir_chapters) ==
    IF epub_chapters = <<>> \/ ir_chapters = <<>> THEN <<>>
    ELSE (IF Head(ir_chapters).title # <<>>
          THEN <<[href |-> Head(epub_chapters).file_name,
                  title |-> Head(ir_chapters).title,
                  uid |-> Head(ir_chapters).id]>>
          ELSE <<>>)
         \o create_toc(Tail(epub_chapters), Tail(ir_chapters))

\* _generate_css: a fixed text, of which the first line is kept
generate_css == <<"/", "*", " ", "D", "e", "f", "a", "u", "l", "t", " ", "E", "P", "U", "B", " ", "S", "t", "y", "l", "e", "s", "h", "e", "e", "t", " ", "*", "/">>

\* the stylesheet item added to the book
nav_css ==
    [file_name |-> <<"s", "t", "y", "l", "e", "/", "d", "e", "f", "a", "u", "l", "t", ".", "c", "s", "s">>,
     media_type |-> <<"t", "e", "x", "t", "/", "c", "s", "s">>,
     content |-> generate_css]

(***************************************************************************)
(* PdfRenderer: chapters, front matter and stylesheet.                     *)
(***************************************************************************)
\* _render_chapter
render_chapter(chapter, index) ==
    <<"\n", " ", " ", " ", " ", " ", " ", " ", " ", "<", "s", "e", "c",
      "t", "i", "o", "n", " ", "c", "l", "a", "s", "s", "=", "\"", "c",
      "h", "a", "p", "t", "e", "r", "\"", " ", "i", "d", "=", "\"">>
    \o chapter.id
    \o <<"\"", ">", "\n", " ", " ", " ", " ", " ", " ", " ", " ", " ", " ",
      " ", " ">>
    \o (IF chapter.title # <<>>
        THEN <<"<", "h", "1", " ", "c", "l", "a", "s", "s", "=", "\"",
               "c", "h", "a", "p", "t", "e", "r", "-", "t", "i", "t",
               "l", "e", "\"", " ", "s", "t", "y", "l", "e", "=", "\"",
               "s", "t", "r", "i", "n", "g", "-", "s", "e", "t", ":",
               " ", "c", "h", "a", "p", "t", "e", "r", "-", "t", "i",
               "t", "l", "e", " ", "'">>
             \o html_escape(chapter.title)
             \o <<"'", "\"", ">">>
             \o html_escape(chapter.title)
             \o <<"<", "/", "h", "1", ">">>
        ELSE <<>>)
    \o <<"\n", " ", " ", " ", " ", " ", " ", " ", " ", " ", " ", " ", " ">>
    \o pdf_render_nodes(chapter.content)
    \o <<"\n", " ", " ", " ", " ", " ", " ", " ", " ", "<", "/", "s", "e",
      "c", "t", "i", "o", "n", ">", "\n", " ", " ", " ", " ", " ", " ",
      " ", " ">>

\* ", ".join(parts)
RECURSIVE join_comma(_)
join_comma(parts) ==
    IF parts = <<>> THEN <<>>
    ELSE IF Len(parts) = 1 THEN Head(parts)
    ELSE Head(parts) \o <<",", " ">> \o join_comma(Tail(parts))

\* _generate_title_page
generate_title_page(meta) ==
    <<"\n", " ", " ", " ", " ", " ", " ", " ", " ", "<", "s", "e", "c",
      "t", "i", "o", "n", " ", "c", "l", "a", "s", "s", "=", "\"", "t",
      "i", "t", "l", "e", "-", "p", "a", "g", "e", "\"", ">", "\n", " ",
      " ", " ", " ", " ", " ", " ", " ", " ", " ", " ", " ", "<", "h",
      "1", " ", "c", "l", "a", "s", "s", "=", "\"", "b", "o", "o", "k",
      "-", "t", "i", "t", "l", "e", "\"", ">">>
    \o html_escape(meta.title)
    \o <<"<", "/", "h", "1", ">", "\n", " ", " ", " ", " ", " ", " ", " ",
      " ", " ", " ", " ", " ">>
    \o (IF Truthy(meta.subtitle)
        THEN <<"<", "p", " ", "c", "l", "a", "s", "s", "=", "'", "s", "u", "b", "t", "i", "t", "l", "e", "'", ">">> \o html_escape(meta.subtitle)
                \o <<"<", "/", "p", ">">>
        ELSE <<>>)
    \o <<"\n", " ", " ", " ", " ", " ", " ", " ", " ", " ", " ", " ", " ",
      "<", "p", " ", "c", "l", "a", "s", "s", "=", "\"", "a", "u", "t",
      "h", "o", "r", "\"", ">">>
    \o html_escape(join_comma(meta.authors))
    \o <<"<", "/", "p", ">", "\n", " ", " ", " ", " ", " ", " ", " ", " ",
      " ", " ", " ", " ">>
    \o (IF Truthy(meta.publisher)
        THEN <<"<", "p", " ", "c", "l", "a", "s", "s", "=", "\"", "p", "u", "b", "l", "i", "s", "h", "e", "r", "\"", ">">> \o html_escape(meta.publisher)
                \o <<"<", "/", "p", ">">>
        ELSE <<>>)
    \o <<"\n", " ", " ", " ", " ", " ", " ", " ", " ", "<", "/", "s", "e",
      "c", "t", "i", "o", "n", ">", "\n", " ", " ", " ", " ", " ", " ",
      " ", " ">>

\* the copyright page of _generate_html
copyright_page(meta) ==
    <<"\n", " ", " ", " ", " ", " ", " ", " ", " ", " ", " ", " ", " ",
      "<", "s", "e", "c", "t", "i", "o", "n", " ", "c", "l", "a", "s",
      "s", "=", "\"", "c", "o", "p", "y", "r", "i", "g", "h", "t", "-",
      "p", "a", "g", "e", "\"", ">", "\n", " ", " ", " ", " ", " ", " ",
      " ", " ", " ", " ", " ", " ", " ", " ", " ", " ", "<", "p", ">">>
    \o html_escape(meta.copyright)
    \o <<"<", "/", "p", ">", "\n", " ", " ", " ", " ", " ", " ", " ", " ",
      " ", " ", " ", " ", " ", " ", " ", " ">>
    \o (IF Truthy(meta.isbn_print)
        THEN <<"<", "p", ">", "I", "S", "B", "N", ":", " ">> \o html_escape(meta.isbn_print) \o <<"<", "/", "p", ">">>
        ELSE <<>>)
    \o <<"\n", " ", " ", " ", " ", " ", " ", " ", " ", " ", " ", " ", " ",
      "<", "/", "s", "e", "c", "t", "i", "o", "n", ">", "\n", " ", " ",
      " ", " ", " ", " ", " ", " ", " ", " ", " ", " ">>

\* the entries of _generate_toc: one for every chapter with a title
RECURSIVE toc_entries(_)
toc_entries(chs) ==
    IF chs = <<>> THEN <<>>
    ELSE (IF Head(chs).title # <<>>
          THEN <<"<", "l", "i", ">", "<", "a", " ", "h", "r", "e", "f",
                 "=", "\"", "#">>
               \o Head(chs).id
               \o <<"\"", ">">>
               \o html_escape(Head(chs).title)
               \o <<"<", "/", "a", ">", "<", "/", "l", "i", ">">>
          ELSE <<>>)
         \o toc_entries(Tail(chs))

\* _generate_toc
generate_toc(doc) ==
    IF toc_entries(doc.chapters) = <<>> THEN <<>>
    ELSE <<"\n", " ", " ", " ", " ", " ", " ", " ", " ", "<", "s", "e",
           "c", "t", "i", "o", "n", " ", "c", "l", "a", "s", "s", "=",
           "\"", "t", "o", "c", "\"", ">", "\n", " ", " ", " ", " ", " ",
           " ", " ", " ", " ", " ", " ", " ", "<", "h", "2", ">", "C",
           "o", "n", "t", "e", "n", "t", "s", "<", "/", "h", "2", ">",
           "\n", " ", " ", " ", " ", " ", " ", " ", " ", " ", " ", " ",
           " ", "<", "n", "a", "v", ">", "\n", " ", " ", " ", " ", " ",
           " ", " ", " ", " ", " ", " ", " ", " ", " ", " ", " ", "<",
           "o", "l", ">", "\n", " ", " ", " ", " ", " ", " ", " ", " ",
           " ", " ", " ", " ", " ", " ", " ", " ", " ", " ", " ", " ">>
         \o toc_entries(doc.chapters)
         \o <<"\n", " ", " ", " ", " ", " ", " ", " ", " ", " ", " ", " ",
           " ", " ", " ", " ", " ", "<", "/", "o", "l", ">", "\n", " ",
           " ", " ", " ", " ", " ", " ", " ", " ", " ", " ", " ", "<",
           "/", "n", "a", "v", ">", "\n", " ", " ", " ", " ", " ", " ",
           " ", " ", "<", "/", "s", "e", "c", "t", "i", "o", "n", ">",
           "\n", " ", " ", " ", " ", " ", " ", " ", " ">>

\* _generate_html once the chapters are rendered
generate_html(doc, cfg, chapters_html) ==
    <<"<", "!", "D", "O", "C", "T", "Y", "P", "E", " ", "h", "t", "m",
      "l", ">", "\n", "<", "h", "t", "m", "l", " ", "l", "a", "n", "g",
      "=", "\"">>
    \o doc.metadata.language
    \o <<"\"", ">", "\n", "<", "h", "e", "a", "d", ">", "\n", " ", " ", " ",
      " ", "<", "m", "e", "t", "a", " ", "c", "h", "a", "r", "s", "e",
      "t", "=", "\"", "u", "t", "f", "-", "8", "\"", ">", "\n", " ", " ",
      " ", " ", "<", "t", "i", "t", "l", "e", ">">>
    \o html_escape(doc.metadata.title)
    \o <<"<", "/", "t", "i", "t", "l", "e", ">", "\n", "<", "/", "h", "e",
      "a", "d", ">", "\n", "<", "b", "o", "d", "y", ">", "\n", " ", " ",
      " ", " ", "<", "d", "i", "v", " ", "c", "l", "a", "s", "s", "=",
      "\"", "b", "o", "o", "k", "-", "t", "i", "t", "l", "e", "\"", " ",
      "s", "t", "y", "l", "e", "=", "\"", "s", "t", "r", "i", "n", "g",
      "-", "s", "e", "t", ":", " ", "b", "o", "o", "k", "-", "t", "i",
      "t", "l", "e", " ", "'">>
    \o html_escape(doc.metadata.title)
    \o <<"'", "\"", ">", "<", "/", "d", "i", "v", ">", "\n", " ", " ", " ",
      " ">>
    \o (IF cfg.include_title_page
        THEN generate_title_page(doc.metadata) ELSE <<>>)
    \o <<"\n", " ", " ", " ", " ">>
    \o (IF cfg.include_copyright_page /\ Truthy(doc.metadata.copyright)
        THEN copyright_page(doc.metadata) ELSE <<>>)
    \o <<"\n", " ", " ", " ", " ">>
    \o (IF cfg.include_toc THEN generate_toc(doc) ELSE <<>>)
    \o <<"\n", " ", " ", " ", " ">>
    \o join(chapters_html)
    \o <<"\n", "<", "/", "b", "o", "d", "y", ">", "\n", "<", "/", "h", "t",
      "m", "l", ">">>

\* _generate_print_css: the values of the PdfConfig in the order in which the
\* stylesheet uses them; of each run of fixed text between them only the
\* start is kept
generate_print_css(cfg) ==
    <<"/", "*", " ", "P", "r", "i", "n", "t", " ", "C", "S", "S", " ", "*", "/", " ", "s", "i", "z", "e", ":", " ">> \o cfg.page_size
    \o <<";", " ", "m", "a", "r", "g", "i", "n", ":", " ">> \o cfg.margins.top \o <<" ">> \o cfg.margins.outside
    \o <<" ">> \o cfg.margins.bottom \o <<" ">> \o cfg.margins.inside
    \o (IF Truthy(cfg.bleed)
        THEN <<";", " ", "b", "l", "e", "e", "d", ":", " ">> \o cfg.bleed
                \o <<";", " ", "m", "a", "r", "k", "s", ":", " ", "c", "r", "o", "p", " ", "c", "r", "o", "s", "s", ";">>
        ELSE <<>>)
    \o (IF cfg.show_page_numbers /\ cfg.page_number_position = "bottom-center"
        THEN <<" ", "@", "b", "o", "t", "t", "o", "m", "-", "c", "e", "n", "t", "e", "r">>
        ELSE <<>>)
    \o <<" ", ":", "l", "e", "f", "t", " ">> \o cfg.margins.outside \o <<" ">> \o cfg.margins.inside
    \o <<" ", ":", "r", "i", "g", "h", "t", " ">> \o cfg.margins.inside \o <<" ">> \o cfg.margins.outside
    \o <<" ", "b", "o", "d", "y", " ">> \o cfg.font_family \o <<" ">> \o cfg.font_size
    \o <<" ">> \o cfg.line_height

(***************************************************************************)
(* The Documents handed to the renderers, as the builder makes them and as *)
(* convert() completes their metadata from the configuration.              *)
(***************************************************************************)
MaxRenders == 2

ISBN_A == <<"9", "7", "8", "-", "0">>
ISBN_P == <<"9", "7", "8", "-", "1">>
ISBN_E == <<"9", "7", "8", "-", "2">>
T_AB == <<"A", "&", "B">>
T_Copyright == <<"(", "c", ")">>

\* Metadata with the fields the renderers read; isbn is the alternate ISBN
Metadata(title, isbn) ==
    [title |-> title, subtitle |-> None, authors |-> <<T_Q, T_AB>>,
     language |-> <<"e", "n">>, publisher |-> None, publication_date |-> None,
     isbn |-> isbn, isbn_print |-> None, isbn_epub |-> None,
     description |-> None, copyright |-> None, cover_image |-> None]

\* convert(): "Update document metadata from config"
update_metadata(meta, cfg) ==
    [meta EXCEPT
        !.title = IF cfg.title = <<>> \/ cfg.title = MetadataConfig.title
                  THEN meta.title ELSE cfg.title,
        !.authors = IF cfg.authors = <<>> THEN meta.authors ELSE cfg.authors,
        !.publisher = IF Truthy(cfg.publisher) THEN cfg.publisher ELSE @,
        !.isbn_print = IF Truthy(cfg.isbn_print) THEN cfg.isbn_print ELSE @,
        !.isbn_epub = IF Truthy(cfg.isbn_epub) THEN cfg.isbn_epub ELSE @,
        !.copyright = IF Truthy(cfg.copyright) THEN cfg.copyright ELSE @]

\* the metadata section of a configuration file that gives a copyright line
\* and, depending on p and e, the print and the digital ISBN
MetadataConfigWith(p, e) ==
    [MetadataConfig EXCEPT
        !.isbn_print = IF p THEN ISBN_P ELSE None,
        !.isbn_epub = IF e THEN ISBN_E ELSE None,
        !.copyright = T_Copyright]

Image1 == ImageNode(SourceRels.rId1, MimePng, ImagePrefix \o <<"1", ".", "p", "n", "g">>)
Image2 == ImageNode(SourceRels.rId2, MimeGif, ImagePrefix \o <<"2", ".", "g", "i", "f">>)
\* an image relationship with an empty blob
Image3 == ImageNode(<<>>, MimePng, ImagePrefix \o <<"3", ".", "p", "n", "g">>)
\* a second PNG image
Image4 ==
    ImageNode(<<137, 80, 78, 71, 26>>, MimePng,
              ImagePrefix \o <<"4", ".", "p", "n", "g">>)

chapter_id(k) == ChapterDash \o str(k)

\* an implicit chapter (no title) of text
ImplicitChapter(k) ==
    Chapter(<<>>, 1, <<Node("paragraph", <<TextNode(T_a)>>)>>, chapter_id(k))

\* a chapter with formatted text and an image
ImageChapter(k) ==
    Chapter(T_AB, 1,
            <<Node("paragraph", <<Node("strong", <<TextNode(T_Q)>>)>>), Image4>>,
            chapter_id(k))

\* a chapter with a heading and with images in a table cell
TableChapter(k) ==
    Chapter(T_Intro, 1,
            <<HeadingNode(2, <<TextNode(T_Sec)>>),
              TableNode(<<Node("table_row",
                  <<Node("table_cell", <<Image2, Image3>>)>>)>>)>>,
            chapter_id(k))

\* an implicit chapter whose paragraph holds two images
ImplicitImages(k) ==
    Chapter(<<>>, 1, <<Node("paragraph", <<Image1, Image2>>)>>, chapter_id(k))

\* the chapter lists of the Documents, one for each kind of configuration:
\* with or without print ISBN (p), with or without digital ISBN (e)
ChapterListFor(p, e) ==
    IF p THEN (IF e THEN <<ImageChapter(1), TableChapter(2)>>
               ELSE <<ImplicitChapter(1)>>)
    ELSE (IF e THEN <<TableChapter(1)>>
          ELSE <<ImplicitImages(1), ImageChapter(2)>>)

\* Document.images: the image relationships of the source
DocumentImages == [rId3 |-> Image4.src] @@ SourceRels

Document(metadata, chs) ==
    [metadata |-> metadata, front_matter |-> <<>>, chapters |-> chs,
     back_matter |-> <<>>, footnotes |-> EmptyDict, images |-> DocumentImages]

\* the values uuid.uuid4() can return
Uuids == {<<"u", "1">>, <<"u", "2">>}

\* a Document has been built and completed; no renderer exists yet
InitRender ==
    /\ pc = "done"
    /\ stream = <<>>
    /\ images = DocumentImages
    /\ image_counter = 0
    /\ chapters = <<>>
    /\ current_chapter = None
    /\ chapter_counter = 0
    /\ node = None
    /\ \E a \in BOOLEAN, p \in BOOLEAN, e \in BOOLEAN :
          /\ config = [TypesetConfig EXCEPT !.metadata = MetadataConfigWith(p, e)]
          /\ document =
                Document(update_metadata(
                            Metadata(T_Intro, IF a THEN ISBN_A ELSE None),
                            MetadataConfigWith(p, e)),
                         ChapterListFor(p, e))
    /\ image_items = <<>>
    /\ renders = <<>>
    /\ ret = NoCall

(***************************************************************************)
(* render() of the two renderers, step by step.  Several calls may be in   *)
(* flight; their steps interleave.                                         *)
(***************************************************************************)
InFlight(r) == renders[r].pc \notin {"written", "raised"}

IsEpub(r) == renders[r].renderer = "epub"

IsPdf(r) == renders[r].renderer = "pdf"

\* EpubRenderer.render is called on instance inst, a new instance when inst
\* is past the instances made so far: "book = epub.EpubBook()"
epub_render(inst) ==
    /\ Len(renders) < MaxRenders
    /\ image_items' =
          IF inst > Len(image_items) THEN Append(image_items, EmptyDict)
          ELSE image_items
    /\ renders' =
          Append(renders,
                 [renderer |-> "epub", instance |-> inst, pc |-> "set_metadata",
                  i |-> 1, book |-> EpubBook, chapters |-> <<>>])
    /\ UNCHANGED <<parser_vars, document, config, ret>>

\* "self._set_metadata(book, document)"
epub_set_metadata(r, fresh) ==
    /\ IsEpub(r)
    /\ renders[r].pc = "set_metadata"
    /\ renders' =
          [renders EXCEPT
              ![r].book = set_metadata(@, document.metadata, config.epub, fresh),
              ![r].pc = IF document.chapters = <<>> THEN "write"
                        ELSE "add_images"]
    /\ UNCHANGED <<parser_vars, document, config, image_items, ret>>

\* the state after _collect_images returned acc for chapter renders[r].i
added_images(r, acc) ==
    /\ renders' =
          [renders EXCEPT
              ![r].book.items = acc.book_items,
              ![r].i = IF @ < Len(document.chapters) THEN @ + 1 ELSE 1,
              ![r].pc = IF renders[r].i < Len(document.chapters)
                        THEN "add_images" ELSE "create_chapters"]
    /\ image_items' = [image_items EXCEPT ![renders[r].instance] = acc.image_items]
    /\ document' = acc.document

\* one iteration of the loop of _add_images
epub_add_images(r) ==
    /\ IsEpub(r)
    /\ renders[r].pc = "add_images"
    /\ added_images(r,
          collect_images(document.chapters[renders[r].i].content, 1,
              <<renders[r].i>>,
              [counter |-> image_counter_start(image_items[renders[r].instance]),
               book_items |-> renders[r].book.items,
               image_items |-> image_items[renders[r].instance],
               document |-> document]))
    /\ UNCHANGED <<parser_vars, config, ret>>

\* the state after _create_chapter returned epub_chapter
created_chapter(r, epub_chapter) ==
    renders' =
        [renders EXCEPT
            ![r].book.items = Append(@, epub_chapter),
            ![r].chapters = Append(@, epub_chapter),
            ![r].i = IF @ < Len(document.chapters) THEN @ + 1 ELSE 1,
            ![r].pc = IF renders[r].i < Len(document.chapters)
                      THEN "create_chapters" ELSE "write"]

\* one iteration of the loop "for i, chapter in enumerate(document.chapters)"
epub_create_chapter(r) ==
    /\ IsEpub(r)
    /\ renders[r].pc = "create_chapters"
    /\ created_chapter(r,
          create_chapter(image_items[renders[r].instance], config.epub,
                         document.chapters[renders[r].i], renders[r].i - 1))
    /\ UNCHANGED <<parser_vars, document, config, image_items, ret>>

\* the stylesheet, the table of contents and the spine are set and the book
\* is written
epub_write(r) ==
    /\ IsEpub(r)
    /\ renders[r].pc = "write"
    /\ renders' =
          [renders EXCEPT
              ![r].book.items = Append(@, nav_css),
              ![r].book.toc = create_toc(renders[r].chapters, document.chapters),
              ![r].book.spine =
                  <<<<"n", "a", "v">>>> \o
                  [k \in DOMAIN renders[r].chapters |->
                      renders[r].chapters[k].file_name],
              ![r].pc = "written"]
    /\ UNCHANGED <<parser_vars, document, config, image_items, ret>>

\* PdfRenderer.render is called
pdf_render ==
    /\ Len(renders) < MaxRenders
    /\ renders' =
          Append(renders,
                 [renderer |-> "pdf",
                  pc |-> IF document.chapters = <<>> THEN "generate_html"
                         ELSE "render_chapters",
                  i |-> 1, chapters_html |-> <<>>, html_content |-> None,
                  css_content |-> None])
    /\ UNCHANGED <<parser_vars, document, config, image_items, ret>>

\* one iteration of the loop of _generate_html
pdf_render_chapter(r) ==
    /\ IsPdf(r)
    /\ renders[r].pc = "render_chapters"
    /\ renders' =
          [renders EXCEPT
              ![r].chapters_html =
                  Append(@, render_chapter(document.chapters[renders[r].i],
                                           renders[r].i - 1)),
              ![r].i = IF @ < Len(document.chapters) THEN @ + 1 ELSE 1,
              ![r].pc = IF renders[r].i < Len(document.chapters)
                        THEN "render_chapters" ELSE "generate_html"]
    /\ UNCHANGED <<parser_vars, document, config, image_items, ret>>

\* the rest of _generate_html: front matter and the whole page
pdf_generate_html(r) ==
    /\ IsPdf(r)
    /\ renders[r].pc = "generate_html"
    /\ renders' =
          [renders EXCEPT
              ![r].html_content =
                  generate_html(document, config.pdf, renders[r].chapters_html),
              ![r].pc = "write"]
    /\ UNCHANGED <<parser_vars, document, config, image_items, ret>>

\* _generate_print_css and write_pdf
pdf_write(r) ==
    /\ IsPdf(r)
    /\ renders[r].pc = "write"
    /\ renders' =
          [renders EXCEPT
              ![r].css_content = generate_print_css(config.pdf),
              ![r].pc = "written"]
    /\ UNCHANGED <<parser_vars, document, config, image_items, ret>>

\* a step of a render call raises (the output cannot be written, a library
\* rejects the content): the call ends without a result
render_raise(r) ==
    /\ InFlight(r)
    /\ renders' = [renders EXCEPT ![r].pc = "raised"]
    /\ UNCHANGED <<parser_vars, document, config, image_items, ret>>

NextRender ==
    \/ \E inst \in 1..(Len(image_items) + 1) : epub_render(inst)
    \/ pdf_render
    \/ \E r \in DOMAIN renders, fresh \in Uuids : epub_set_metadata(r, fresh)
    \/ \E r \in DOMAIN renders : epub_add_images(r)
    \/ \E r \in DOMAIN renders : epub_create_chapter(r)
    \/ \E r \in DOMAIN renders : epub_write(r)
    \/ \E r \in DOMAIN renders : pdf_render_chapter(r)
    \/ \E r \in DOMAIN renders : pdf_generate_html(r)
    \/ \E r \in DOMAIN renders : pdf_write(r)
    \/ \E r \in DOMAIN renders : render_raise(r)

SpecRender == InitRender /\ [][NextRender]_vars

(***************************************************************************)
(* Vocabulary of the renderer properties.                                  *)
(***************************************************************************)
Written(r) == renders[r].pc = "written"

\* id() of the Image nodes with bytes among nodes and below them
RECURSIVE ImageIds(_, _)
ImageIds(nodes, path) ==
    UNION {(IF "src" \in DOMAIN nodes[i] /\ nodes[i].src # <<>>
            THEN {Append(path, i)} ELSE {})
           \cup ImageIds(nodes[i].children, Append(path, i)) :
           i \in DOMAIN nodes}

\* id() of the Image nodes with bytes of the Document
DocumentImageIds ==
    UNION {ImageIds(document.chapters[i].content, <<i>>) :
           i \in DOMAIN document.chapters}

\* the items of a book that are images
BookImages(book) ==
    SelectSeq(book.items, LAMBDA item : startswith(item.media_type, <<"i", "m", "a", "g", "e", "/">>))

\* the src attribute that refers to path
SrcAttribute(path) ==
    <<"s", "r", "c", "=", "\"">> \o path \o <<"\"">>

\* the id attribute of the <section> of a chapter
IdAttribute(id) ==
    <<" ", "i", "d", "=", "\"">> \o id \o <<"\"", ">">>

(***************************************************************************)
(* C14: renders of one Document give the same markup and stylesheet,       *)
(* whatever ran before or runs alongside.                                  *)
(***************************************************************************)
StableIdentifier ==
    \/ Truthy(document.metadata.isbn_epub)
    \/ Truthy(document.metadata.isbn_print)
    \/ Truthy(document.metadata.isbn)

\* self.image_items of a new EpubRenderer after _add_images ran alone over
\* the chapters from position i on
RECURSIVE ItemsAlone(_, _)
ItemsAlone(i, items) ==
    IF i > Len(document.chapters) THEN items
    ELSE ItemsAlone(i + 1,
            collect_images(document.chapters[i].content, 1, <<i>>,
                [counter |-> image_counter_start(items), book_items |-> <<>>,
                 image_items |-> items, document |-> document]).image_items)

\* the chapter markup of one EPUB render executed alone on a new renderer
EpubMarkupAlone ==
    [i \in DOMAIN document.chapters |->
        create_chapter(ItemsAlone(1, EmptyDict), config.epub,
                       document.chapters[i], i - 1).content]

\* the page of one PDF render executed alone
PdfMarkupAlone ==
    generate_html(document, config.pdf,
        [i \in DOMAIN document.chapters |->
            render_chapter(document.chapters[i], i - 1)])

\* C14: with a stable identifier, every finished render has the chapter
\* markup and the stylesheet of a render executed alone
C14_RendersAgree ==
    StableIdentifier =>
        \A r \in DOMAIN renders :
            Written(r) =>
                IF IsEpub(r)
                THEN /\ [i \in DOMAIN renders[r].chapters |->
                            renders[r].chapters[i].content] = EpubMarkupAlone
                     /\ renders[r].book.items[Len(renders[r].book.items)].content
                            = generate_css
                ELSE /\ renders[r].html_content = PdfMarkupAlone
                     /\ renders[r].css_content = generate_print_css(config.pdf)

\* on one renderer instance a second EPUB render of a Document with images in
\* two chapters has finished while the first render is still between the
\* creation of its first and its second chapter
C14_Witness ==
    /\ StableIdentifier
    /\ Len(renders) = 2
    /\ IsEpub(1) /\ IsEpub(2)
    /\ renders[1].instance = 1 /\ renders[2].instance = 1
    /\ renders[1].pc = "create_chapters" /\ renders[1].i = 2
    /\ Written(2)
    /\ Cardinality(DocumentImageIds) = 3

(***************************************************************************)
(* C15: rendering leaves the Document as it is.                            *)
(***************************************************************************)
\* C15: no step of a render call, finished or raising, changes the Document;
\* the resolved image paths are in self.image_items only
C15_DocumentUnchanged == [][document' = document]_vars

\* one render has raised, an EPUB render has finished and its renderer holds
\* the resolved paths of the two images of the Document
C15_Witness ==
    /\ Len(renders) = 2
    /\ renders[1].pc = "raised"
    /\ IsEpub(2) /\ Written(2)
    /\ Cardinality(DOMAIN image_items[renders[2].instance]) = 2
    /\ document.images = DocumentImages
    /\ document.chapters = ChapterListFor(TRUE, TRUE)

(***************************************************************************)
(* C18: every image with bytes has a resource path of its own, and its     *)
(* markup refers to it.                                                    *)
(***************************************************************************)
\* the images are collected: the render call is past _add_images
ImagesAdded(r) ==
    IsEpub(r) /\ renders[r].pc \in {"create_chapters", "write", "written"}

\* C18: in an EPUB render every Image node with bytes is registered under a
\* path no other image of the Document is registered under, and the markup
\* of its chapter refers to that path
C18_DistinctImagePaths ==
    \A r \in DOMAIN renders :
        /\ ImagesAdded(r) =>
              LET items == image_items[renders[r].instance]
              IN /\ DocumentImageIds \subseteq DOMAIN items
                 /\ \A a \in DocumentImageIds, b \in DocumentImageIds :
                       a # b => items[a].file_name # items[b].file_name
                 /\ Len(BookImages(renders[r].book)) = Cardinality(DocumentImageIds)
                 /\ \A j \in DOMAIN BookImages(renders[r].book),
                       k \in DOMAIN BookImages(renders[r].book) :
                       j # k => BookImages(renders[r].book)[j].file_name
                                    # BookImages(renders[r].book)[k].file_name
        /\ (IsEpub(r) /\ Written(r)) =>
              \A a \in DocumentImageIds :
                 In(SrcAttribute(image_items[renders[r].instance][a].file_name),
                    renders[r].chapters[a[1]].content)

(***************************************************************************)
(* C19: one content unit per chapter; one table-of-contents entry per      *)
(* chapter that has a title.                                               *)
(***************************************************************************)
\* one unit per chapter, in chapter order, under distinct file names
UnitPerChapter(r) ==
    /\ Len(renders[r].chapters) = Len(document.chapters)
    /\ \A i \in DOMAIN document.chapters :
          /\ In(IdAttribute(document.chapters[i].id), renders[r].chapters[i].content)
          /\ renders[r].book.spine[i + 1] = renders[r].chapters[i].file_name
          /\ \E k \in DOMAIN renders[r].book.items :
                renders[r].book.items[k] = renders[r].chapters[i]
    /\ \A i \in DOMAIN renders[r].chapters, j \in DOMAIN renders[r].chapters :
          i # j => renders[r].chapters[i].file_name # renders[r].chapters[j].file_name

\* the entries of the table of contents keyed by the id of chapter i
TocEntries(r, i) ==
    {k \in DOMAIN renders[r].book.toc :
        renders[r].book.toc[k].uid = document.chapters[i].id}

\* C19 as stated: every chapter, with or without title, has exactly one entry
\* that points to its unit
C19_TocEntryPerChapter ==
    \A r \in DOMAIN renders :
        (IsEpub(r) /\ Written(r)) =>
            /\ UnitPerChapter(r)
            /\ Len(renders[r].book.toc) = Len(document.chapters)
            /\ \A i \in DOMAIN document.chapters :
                  /\ Cardinality(TocEntries(r, i)) = 1
                  /\ \A k \in TocEntries(r, i) :
                        renders[r].book.toc[k].href = renders[r].chapters[i].file_name

Titled == {i \in DOMAIN document.chapters : document.chapters[i].title # <<>>}

\* C19: every chapter has its unit; every chapter with a title has exactly
\* one entry, keyed by its id and pointing to its unit, and a chapter
\* without title has none
C19_TocEntryPerTitledChapter ==
    \A r \in DOMAIN renders :
        (IsEpub(r) /\ Written(r)) =>
            /\ UnitPerChapter(r)
            /\ Len(renders[r].book.toc) = Cardinality(Titled)
            /\ \A i \in DOMAIN document.chapters :
                  /\ Cardinality(TocEntries(r, i)) = (IF i \in Titled THEN 1 ELSE 0)
                  /\ \A k \in TocEntries(r, i) :
                        /\ renders[r].book.toc[k].href = renders[r].chapters[i].file_name
                        /\ renders[r].book.toc[k].title = document.chapters[i].title

\* a Document of an implicit chapter and a chapter with a title has been
\* written: two units, one entry
C19_Witness ==
    /\ Len(renders) >= 1
    /\ IsEpub(1) /\ Written(1)
    /\ Len(document.chapters) = 2
    /\ document.chapters[1].title = <<>>
    /\ Len(renders[1].chapters) = 2
    /\ Len(renders[1].book.toc) = 1
    /\ renders[1].book.toc[1].uid = chapter_id(2)

(***************************************************************************)
(* C20: the identifier of the package.                                     *)
(***************************************************************************)
\* _set_metadata has run in render call r
MetadataSet(r) ==
    IsEpub(r) /\ renders[r].pc \in {"add_images", "create_chapters", "write", "written"}

\* C20: the identifier is the digital ISBN when set, else the print or the
\* alternate ISBN when one is set, else a fresh identifier
C20_IdentifierPrecedence ==
    \A r \in DOMAIN renders :
        MetadataSet(r) =>
            LET meta == document.metadata
                identifier == renders[r].book.identifier
            IN IF Truthy(meta.isbn_epub) THEN identifier = meta.isbn_epub
               ELSE IF Truthy(meta.isbn_print) \/ Truthy(meta.isbn)
               THEN \/ Truthy(meta.isbn_print) /\ identifier = meta.isbn_print
                    \/ Truthy(meta.isbn) /\ identifier = meta.isbn
               ELSE \E fresh \in Uuids : identifier = UrnUuid \o fresh

(***************************************************************************)
(* Document.word_count (typeset.ir.document).                              *)
(***************************************************************************)
\* len(s.split()): the number of whitespace-separated tokens of s
RECURSIVE split_len(_)
split_len(s) ==
    IF lstrip(s) = <<>> THEN 0
    ELSE LET t == lstrip(s)
             k == CHOOSE j \in 1..Len(t) :
                     /\ \A i \in 1..j : ~IsSpace(t[i])
                     /\ (j = Len(t) \/ IsSpace(t[j + 1]))
         IN 1 + split_len(SubSeq(t, k + 1, Len(t)))

\* "for node in chapter.content: total += len(node.get_text().split())"
RECURSIVE count_nodes(_)
count_nodes(nodes) ==
    IF nodes = <<>> THEN 0
    ELSE split_len(get_text(Head(nodes))) + count_nodes(Tail(nodes))

\* variant of count_chapters: the text of a chapter is counted as one string
RECURSIVE count_chapters_joined(_)
count_chapters_joined(chs) ==
    IF chs = <<>> THEN 0
    ELSE split_len(join([i \in DOMAIN Head(chs).content |->
                            get_text(Head(chs).content[i])]))
         + count_chapters_joined(Tail(chs))

\* "for chapter in self.chapters"
RECURSIVE count_chapters(_)
count_chapters(chs) ==
    IF chs = <<>> THEN 0
    ELSE count_nodes(Head(chs).content) + count_chapters(Tail(chs))

word_count(doc) == count_chapters(doc.chapters)

(***************************************************************************)
(* Direct calls of DocxParser._detect_image_type, Document.word_count and  *)
(* the Chapter constructor.                                                *)
(***************************************************************************)
MaxParts == 3
MaxContent == 2

Sig_PNG == <<137, 80, 78, 71>>
Sig_JPEG == <<255, 216, 255>>
Sig_GIF == <<71, 73, 70>>
Sig_RIFF == <<82, 73, 70, 70>>
Sig_WEBP == <<87, 69, 66, 80>>

\* byte strings made of signatures, parts of signatures and other bytes
Chunks ==
    {Sig_PNG, Sig_JPEG, Sig_GIF, Sig_RIFF, Sig_WEBP, <<36, 0, 0, 0>>,
     <<137, 80>>, <<82, 73>>, <<0>>}

ByteStrings == {join(parts) : parts \in SeqsUpTo(Chunks, MaxParts)}

\* titles made of letters, digits, whitespace, underscores, hyphens and
\* punctuation
Titles ==
    {join(parts) :
        parts \in SeqsUpTo({<<"A">>, <<"b", "1">>, <<" ">>, <<"\t">>, <<"_">>,
                            <<"-">>, <<"!">>, <<"'", "s">>}, MaxParts)}

\* content nodes: two words in one Text, one word in two Texts with
\* whitespace around it, a word without whitespace, an Image
WordNodes ==
    {Node("paragraph", <<TextNode(<<"c", "\t", "d">>)>>),
     Node("paragraph", <<Node("strong", <<TextNode(<<" ", "e">>)>>),
                         TextNode(<<"f", "\n">>)>>),
     HeadingNode(2, <<TextNode(<<"a", "b">>)>>),
     ImageNode(Sig_GIF, MimeGif, <<>>)}

\* Documents of at most two chapters, with and without front and back matter
WordDocuments ==
    {[Document(Metadata(T_Intro, None),
               [i \in DOMAIN contents |-> Chapter(<<>>, 1, contents[i], chapter_id(i))])
        EXCEPT !.front_matter = matter, !.back_matter = matter] :
        contents \in SeqsUpTo(SeqsUpTo(WordNodes, MaxContent), 2),
        matter \in {<<>>, <<HeadingNode(2, <<TextNode(<<"a", "b">>)>>)>>}}

InitCalls ==
    /\ pc = "call"
    /\ stream = <<>>
    /\ images = [k \in {} |-> <<>>]
    /\ image_counter = 0
    /\ chapters = <<>>
    /\ current_chapter = None
    /\ chapter_counter = 0
    /\ node = None
    /\ document = None
    /\ config = TypesetConfig
    /\ image_items = <<>>
    /\ renders = <<>>
    /\ ret = NoCall

\* self._detect_image_type(data)
detect_image_type_call(data) ==
    /\ pc = "call"
    /\ pc' = "return"
    /\ ret' = [call |-> "_detect_image_type", args |-> <<data>>,
               value |-> detect_image_type(data)]
    /\ UNCHANGED <<stream, images, image_counter, chapters, current_chapter,
                   chapter_counter, node, render_vars>>

\* doc.word_count()
word_count_call(doc) ==
    /\ pc = "call"
    /\ pc' = "return"
    /\ ret' = [call |-> "word_count", args |-> <<doc>>,
               value |-> word_count(doc)]
    /\ UNCHANGED <<stream, images, image_counter, chapters, current_chapter,
                   chapter_counter, node, render_vars>>

\* Chapter(title=title, id=id)
Chapter_call(title, id) ==
    /\ pc = "call"
    /\ pc' = "return"
    /\ ret' = [call |-> "Chapter", args |-> <<title, id>>,
               value |-> Chapter(title, 1, <<>>, id)]
    /\ UNCHANGED <<stream, images, image_counter, chapters, current_chapter,
                   chapter_counter, node, render_vars>>

NextCalls ==
    \/ \E data \in ByteStrings : detect_image_type_call(data)
    \/ \E doc \in WordDocuments : word_count_call(doc)
    \/ \E title \in Titles, id \in {<<>>, <<"X", " ", "1">>} : Chapter_call(title, id)

SpecCalls == InitCalls /\ [][NextCalls]_vars

(***************************************************************************)
(* C23: the MIME type detected from the leading bytes.                     *)
(***************************************************************************)
\* data has the bytes sig from byte offset k on
HasAt(data, sig, k) ==
    Len(data) >= k + Len(sig) /\ SubSeq(data, k + 1, k + Len(sig)) = sig

\* C23: PNG, JPEG and GIF by their leading bytes, WEBP exactly for RIFF data
\* with WEBP at byte offset 8, PNG for everything else
C23_DetectImageType ==
    ret.call = "_detect_image_type" =>
        LET data == ret.args[1]
        IN ret.value =
              IF HasAt(data, Sig_PNG, 0) THEN MimePng
              ELSE IF HasAt(data, Sig_JPEG, 0) THEN MimeJpeg
              ELSE IF HasAt(data, Sig_GIF, 0) THEN MimeGif
              ELSE IF HasAt(data, Sig_RIFF, 0) /\ HasAt(data, Sig_WEBP, 8)
              THEN MimeWebp
              ELSE MimePng

(***************************************************************************)
(* C25: the word count is taken per direct content node of the chapters.   *)
(***************************************************************************)
\* the number of places of s where a token starts
TokenStarts(s) ==
    Cardinality({i \in DOMAIN s :
                    ~IsSpace(s[i]) /\ (i = 1 \/ IsSpace(s[i - 1]))})

RECURSIVE SumOver(_, _)
SumOver(places, doc) ==
    IF places = {} THEN 0
    ELSE LET p == CHOOSE q \in places : TRUE
         IN TokenStarts(get_text(doc.chapters[p[1]].content[p[2]]))
            + SumOver(places \ {p}, doc)

\* C25: word_count is the sum over the direct content nodes of the chapters
\* of the number of tokens of the node's text
C25_WordCount ==
    ret.call = "word_count" =>
        ret.value =
            SumOver({p \in (DOMAIN ret.args[1].chapters) \X (1..(MaxContent + 1)) :
                        p[2] \in DOMAIN ret.args[1].chapters[p[1]].content},
                    ret.args[1])

\* a Document with front and back matter whose first chapter holds "ab" and
\* then "c\td": three words, where the joined text "abc\td" has two
C25_Witness ==
    /\ ret.call = "word_count"
    /\ ret.args[1].front_matter # <<>>
    /\ Len(ret.args[1].chapters) = 2
    /\ Len(ret.args[1].chapters[1].content) = 2
    /\ get_text(ret.args[1].chapters[1].content[1]) = <<"a", "b">>
    /\ get_text(ret.args[1].chapters[1].content[2]) = <<"c", "\t", "d">>
    /\ ret.args[1].chapters[2].content = <<>>
    /\ ret.value = 3

(***************************************************************************)
(* C26: the id of a Chapter.                                               *)
(***************************************************************************)
\* the characters of the lower-cased title that are word characters,
\* whitespace or hyphens
SlugChars(title) ==
    SelectSeq(lower(title), LAMBDA c : IsWordChar(c) \/ IsSpace(c) \/ c = "-")

IsGap(c) == IsSpace(c) \/ c = "_"

\* one hyphen for every run of whitespace and underscores
Hyphenated(s) ==
    join([i \in DOMAIN s |->
            IF ~IsGap(s[i]) THEN <<s[i]>>
            ELSE IF i = 1 \/ ~IsGap(s[i - 1]) THEN <<"-">>
            ELSE <<>>])

\* s without its leading and trailing hyphens
Trimmed(s) ==
    LET inner == {i \in DOMAIN s : s[i] # "-"}
    IN IF inner = {} THEN <<>>
       ELSE SubSeq(s, CHOOSE i \in inner : \A j \in inner : i <= j,
                      CHOOSE i \in inner : \A j \in inner : i >= j)

\* C26: without an id, the id is the trimmed, hyphenated, lower-cased title,
\* or a non-empty fallback when that is empty; a given id is kept
C26_ChapterId ==
    ret.call = "Chapter" =>
        LET title == ret.args[1]
            id == ret.args[2]
            slug == Trimmed(Hyphenated(SlugChars(title)))
        IN /\ id # <<>> => ret.value.id = id
           /\ (id = <<>> /\ slug # <<>>) => ret.value.id = slug
           /\ (id = <<>> /\ slug = <<>>) => ret.value.id # <<>>
           /\ ret.value.title = title

\* a Chapter titled "A 's" has been built without an id
C26_Witness ==
    /\ ret.call = "Chapter"
    /\ ret.args = <<<<"A", " ", "'", "s">>, <<>>>>
    /\ ret.value.id = <<"a", "-", "s">>

(***************************************************************************)
(* C24: the filenames of the Image nodes of one build.                     *)
(***************************************************************************)
\* the Image nodes among nodes and below them, in depth-first order
RECURSIVE ImagesIn(_)
ImagesIn(nodes) ==
    IF nodes = <<>> THEN <<>>
    ELSE (IF IsImageNode(Head(nodes)) THEN <<Head(nodes)>>
          ELSE ImagesIn(Head(nodes).children))
         \o ImagesIn(Tail(nodes))

\* the Image nodes of the chapters chs, in document order
RECURSIVE ImagesOf(_)
ImagesOf(chs) ==
    IF chs = <<>> THEN <<>>
    ELSE ImagesIn(Head(chs).content) \o ImagesOf(Tail(chs))

\* the numbers n for which image_{n}.{ext} is the filename of img, ext being
\* the subtype of its MIME type
ImageNumbers(img) ==
    {n \in 1..image_counter :
        img.filename = ImagePrefix \o str(n) \o <<".">>
                         \o SubSeq(img.mime_type, 7, Len(img.mime_type))}

\* C24: every Image node of the Document under construction is named
\* image_{n}.{ext} after its detected MIME type, and n grows strictly in
\* document order
C24_ImageFilenames ==
    LET imgs == ImagesOf(AllChapters)
    IN /\ \A i \in DOMAIN imgs :
             /\ imgs[i].mime_type \in {MimePng, MimeJpeg, MimeGif, MimeWebp}
             /\ SubSeq(imgs[i].mime_type, 1, 6) = <<"i", "m", "a", "g", "e", "/">>
             /\ Cardinality(ImageNumbers(imgs[i])) = 1
       /\ \A i \in DOMAIN imgs, j \in DOMAIN imgs :
             i < j => \A n \in ImageNumbers(imgs[i]), m \in ImageNumbers(imgs[j]) :
                         n < m

\* a chapter with three images in the cells of a table and a fourth image
\* after the table has been built; a GIF is among them
C24_Witness ==
    /\ pc = "done"
    /\ Len(ImagesOf(chapters)) = 4
    /\ chapters[1].content[1].node_type = "table"
    /\ ImagesOf(chapters)[2].mime_type = MimeGif
    /\ ImageNumbers(ImagesOf(chapters)[4]) = {4}

(***************************************************************************)
(* C28: chapters and their content keep the order of the source.           *)
(***************************************************************************)
\* the i-th chapter of chs has the id chapter-i
NumberedInOrder(chs) ==
    \A i \in DOMAIN chs : chs[i].id = ChapterDash \o str(i)

\* C28: in every step of the loop and in the return step the chapters are
\* numbered in the order they were opened, a closed chapter is not touched
\* again, and a block met while a chapter is open that does not open a chapter
\* appends its node, if it yields one, to the end of the open chapter
C28_SourceOrder ==
    [][/\ NumberedInOrder(AllChapters')
       /\ Len(chapters') >= Len(chapters)
       /\ SubSeq(chapters', 1, Len(chapters)) = chapters
       /\ (Stepped /\ current_chapter # None
           /\ ~(IsParagraph(Block) /\ MatchesChapter(Block.style)))
          => /\ chapters' = chapters
             /\ current_chapter'.id = current_chapter.id
             /\ current_chapter'.title = current_chapter.title
             /\ current_chapter'.content =
                   IF node' # None THEN Append(current_chapter.content, node')
                   ELSE current_chapter.content
       /\ (Stepped /\ current_chapter # None
           /\ IsParagraph(Block) /\ MatchesChapter(Block.style))
          => /\ chapters' = Append(chapters, current_chapter)
             /\ current_chapter'.content = <<>>]_vars

\* a chapter has been built from a heading, a paragraph and a table: its
\* content is the paragraph, then the table
C28_Witness ==
    /\ pc = "done"
    /\ Len(stream) = 3
    /\ IsParagraph(stream[2]) /\ HasText(stream[2])
    /\ IsTable(stream[3])
    /\ Len(chapters) = 1
    /\ chapters[1].id = ChapterDash \o <<"1">>
    /\ Len(chapters[1].content) = 2
    /\ chapters[1].content[1].node_type \in {"paragraph", "blockquote", "heading"}
    /\ chapters[1].content[2].node_type = "table"

(***************************************************************************)
(* parse() as a whole, on a new DocxParser and on one that has parsed      *)
(* another source before.                                                  *)
(***************************************************************************)
\* self.footnotes: set to {} by __init__ and written nowhere else
self_footnotes == EmptyDict

\* a paragraph whose run holds a reference to the footnote with id 2 of the
\* footnotes part of the source
P_Footnote ==
    [footnote_refs |-> <<"2">>] @@ Para(S_Normal, <<PlainRun(T_a)>>, <<>>)

\* the body elements of the sources parsed here
RebuildParagraphs == {P_ChapterOne, P_Hello, P_Image, P_Images, P_Footnote}

\* the source parsed before: one image relationship, a chapter heading and a
\* paragraph with that image
EarlierRels == [rId9 |-> <<255, 216, 255, 224>>]

EarlierDocument ==
    [Document(Metadata(T_Intro, None),
              <<Chapter(T_Intro, 1,
                        <<parse_paragraph(Para(S_Normal, <<>>, <<"rId9">>),
                                          EarlierRels, 0).node>>,
                        chapter_id(1))>>)
        EXCEPT !.footnotes = self_footnotes, !.images = EarlierRels]

\* parse() is called on a new instance, or on the instance that returned
\* EarlierDocument
InitRebuild ==
    /\ pc = "start"
    /\ stream = <<>>
    /\ \E used \in BOOLEAN :
          /\ images = IF used THEN EarlierRels ELSE [k \in {} |-> <<>>]
          /\ image_counter = IF used THEN 1 ELSE 0
          /\ document = IF used THEN EarlierDocument ELSE None
    /\ chapters = <<>>
    /\ current_chapter = None
    /\ chapter_counter = 0
    /\ node = None
    /\ config = TypesetConfig
    /\ image_items = <<>>
    /\ renders = <<>>
    /\ ret = NoCall

\* "return Document(metadata=metadata, chapters=chapters,
\* footnotes=self.footnotes, images=self.images)"
parse_return ==
    /\ pc = "done"
    /\ pc' = "returned"
    /\ ret' = [call |-> "parse", args |-> <<stream>>,
               value |-> [Document(Metadata(T_Intro, None), chapters)
                            EXCEPT !.footnotes = self_footnotes,
                                   !.images = images]]
    /\ UNCHANGED <<stream, images, image_counter, chapters, current_chapter,
                   chapter_counter, node, render_vars>>

NextRebuild ==
    \/ extract_images
    \/ \E para \in RebuildParagraphs : extract_chapters_paragraph(para)
    \/ \E table \in Tables : extract_chapters_table(table)
    \/ extract_chapters_return
    \/ parse_return

SpecRebuild == InitRebuild /\ [][NextRebuild]_vars

(***************************************************************************)
(* C27: the footnote map and the footnote references.                      *)
(***************************************************************************)
\* the ids of the footnotes the paragraphs of blocks refer to; the footnotes
\* part of the source holds one body for each
RECURSIVE FootnoteIds(_)
FootnoteIds(blocks) ==
    IF blocks = <<>> THEN {}
    ELSE (IF "footnote_refs" \in DOMAIN Head(blocks)
          THEN Range(Head(blocks).footnote_refs) ELSE {})
         \cup FootnoteIds(Tail(blocks))

\* the FootnoteRef nodes among nodes and below them, in depth-first order
RECURSIVE FootnoteRefsIn(_)
FootnoteRefsIn(nodes) ==
    IF nodes = <<>> THEN <<>>
    ELSE (IF Head(nodes).node_type = "footnote_ref" THEN <<Head(nodes)>>
          ELSE FootnoteRefsIn(Head(nodes).children))
         \o FootnoteRefsIn(Tail(nodes))

RECURSIVE FootnoteRefsOf(_)
FootnoteRefsOf(chs) ==
    IF chs = <<>> THEN <<>>
    ELSE FootnoteRefsIn(Head(chs).content) \o FootnoteRefsOf(Tail(chs))

\* C27: the footnote map of the returned Document has one entry per footnote
\* body of the source, every FootnoteRef id is a key of it, and the ordinals
\* of the FootnoteRef nodes count from 1 in document order
C27_FootnoteMap ==
    ret.call = "parse" =>
        LET refs == FootnoteRefsOf(ret.value.chapters)
        IN /\ DOMAIN ret.value.footnotes = FootnoteIds(ret.args[1])
           /\ \A i \in DOMAIN refs :
                 /\ refs[i].ref_id \in DOMAIN ret.value.footnotes
                 /\ refs[i].number = i

(***************************************************************************)
(* C29: a build does not depend on earlier builds of the instance.         *)
(***************************************************************************)
\* the number of blips of the paragraphs of blocks, table cells included
RECURSIVE BlipCount(_)
BlipCount(blocks) ==
    IF blocks = <<>> THEN 0
    ELSE (IF IsParagraph(Head(blocks)) THEN Len(Head(blocks).blips)
          ELSE BlipCount(join(join(Head(blocks).rows))))
         + BlipCount(Tail(blocks))

\* C29: the returned Document is the one a new instance returns: its image
\* map holds relationships of the source parsed only, its Image nodes carry
\* bytes of those and are numbered from 1 on, and the Document returned
\* before is as it was
C29_BuildIndependent ==
    ret.call = "parse" =>
        LET imgs == ImagesOf(ret.value.chapters)
        IN /\ DOMAIN ret.value.images \subseteq DOMAIN SourceRels
           /\ \A i \in DOMAIN imgs :
                 /\ \E k \in DOMAIN SourceRels : imgs[i].src = SourceRels[k]
                 /\ \A n \in ImageNumbers(imgs[i]) : n <= BlipCount(ret.args[1])
                 /\ ImageNumbers(imgs[i]) # {}
           /\ document # None => document = EarlierDocument

(***************************************************************************)
(* The convert command of the command line, from the validation of its     *)
(* arguments to its exit.  pc is its position, ret.args its arguments,     *)
(* ret.log what it has reported and ret.value its exit status.  The        *)
(* options --title, --author and --output are not given.                   *)
(***************************************************************************)
F_epub == <<"e", "p", "u", "b">>
F_pdf == <<"p", "d", "f">>
F_both == <<"b", "o", "t", "h">>
F_Both == <<"B", "o", "t", "h">>
F_mobi == <<"m", "o", "b", "i">>

\* the values given for --format
Formats == {F_epub, F_pdf, F_both, F_Both, F_mobi}

\* a validation that accepts every format
valid_format_any(fmt) == TRUE

\* "format not in ("epub", "pdf", "both")", negated
valid_format(fmt) == fmt \in {F_epub, F_pdf, F_both}

\* "format = format.lower()"
format == lower(ret.args.format)

\* an except clause that ends the command after every renderer's error
after_render_error_abort(fmt, renderer, next) == "exit"

\* what the except clause of a renderer's block does after its report:
\* "if format == "epub": raise typer.Exit(1)", else the command goes on
after_render_error(fmt, renderer, next) ==
    IF fmt = renderer THEN "exit" ELSE next

\* the command reports msg
Logged(msg) == [ret EXCEPT !.log = Append(@, msg)]

\* the command reports msg and exits with status code
Exited(code, msg) == [ret EXCEPT !.log = Append(@, msg), !.value = code]

HasLog(msg) == \E i \in DOMAIN ret.log : ret.log[i] = msg

\* the render() call convert waits for
LastRender == renders[Len(renders)]

InitConvert ==
    /\ pc = "convert"
    /\ stream = <<>>
    /\ images = [k \in {} |-> <<>>]
    /\ image_counter = 0
    /\ chapters = <<>>
    /\ current_chapter = None
    /\ chapter_counter = 0
    /\ node = None
    /\ document = None
    /\ config = None
    /\ image_items = <<>>
    /\ renders = <<>>
    /\ \E f \in Formats, c \in BOOLEAN :
          ret = [call |-> "convert",
                 args |-> [format |-> f, config_given |-> c],
                 value |-> None, log |-> <<>>]

\* the argument input_file is declared with exists=True, readable=True: the
\* command line library ends the command with status 2 before the body of
\* convert runs when the file is not there
convert_arguments ==
    /\ pc = "convert"
    /\ \E exists \in BOOLEAN :
          /\ pc' = IF exists THEN "validate_format" ELSE "exit"
          /\ ret' = IF exists THEN ret ELSE Exited(2, "usage_error")
    /\ UNCHANGED <<stream, images, image_counter, chapters, current_chapter,
                   chapter_counter, node, render_vars>>

\* "Validate format"
convert_validate_format ==
    /\ pc = "validate_format"
    /\ pc' = IF valid_format(format) THEN "load_config" ELSE "exit"
    /\ ret' = IF valid_format(format) THEN ret
              ELSE Exited(1, "invalid_format")
    /\ UNCHANGED <<stream, images, image_counter, chapters, current_chapter,
                   chapter_counter, node, render_vars>>

\* "Load configuration": the file given with --config is missing (exit 1),
\* or it, or the file find_config_file found, is loaded, which raises when
\* it cannot be read or validated (no except clause: the command ends with
\* status 1), or no file is found and the defaults are used
convert_load_config ==
    /\ pc = "load_config"
    /\ \E exists \in BOOLEAN, loads \in BOOLEAN, p \in BOOLEAN, e \in BOOLEAN :
          LET missing == ret.args.config_given /\ ~exists
              raises == exists /\ ~loads
          IN /\ pc' = IF missing \/ raises THEN "exit" ELSE "mkdir"
             /\ ret' = IF missing THEN Exited(1, "config_not_found")
                       ELSE IF raises THEN Exited(1, "config_error")
                       ELSE ret
             /\ config' =
                   IF missing \/ raises THEN config
                   ELSE IF exists
                   THEN [TypesetConfig EXCEPT !.metadata = MetadataConfigWith(p, e)]
                   ELSE TypesetConfig
    /\ UNCHANGED <<stream, images, image_counter, chapters, current_chapter,
                   chapter_counter, node, document, image_items, renders>>

\* "cfg.output_dir.mkdir(parents=True, exist_ok=True)", outside every try
convert_mkdir ==
    /\ pc = "mkdir"
    /\ \E made \in BOOLEAN :
          /\ pc' = IF made THEN "parse" ELSE "exit"
          /\ ret' = IF made THEN ret ELSE Exited(1, "mkdir_error")
    /\ UNCHANGED <<stream, images, image_counter, chapters, current_chapter,
                   chapter_counter, node, render_vars>>

\* the try block of "Parse document" runs to its end: parse() returns a
\* Document and the metadata of configuration and Document are merged
convert_parse ==
    /\ pc = "parse"
    /\ \E a \in BOOLEAN, p \in BOOLEAN, e \in BOOLEAN :
          document' =
              Document(update_metadata(
                          Metadata(T_Intro, IF a THEN ISBN_A ELSE None),
                          config.metadata),
                       ChapterListFor(p, e))
    /\ config' =
          [config EXCEPT
              !.metadata.title =
                  IF @ = <<>> \/ @ = MetadataConfig.title THEN T_Intro ELSE @,
              !.metadata.authors =
                  IF @ = <<>> THEN Metadata(T_Intro, None).authors ELSE @]
    /\ images' = DocumentImages
    /\ pc' = "epub"
    /\ ret' = Logged("parsed")
    /\ UNCHANGED <<stream, image_counter, chapters, current_chapter,
                   chapter_counter, node, image_items, renders>>

\* a handler that reports the parse error and goes on
convert_parse_except_continue ==
    /\ pc = "parse"
    /\ pc' = "epub"
    /\ ret' = Logged("parse_error")
    /\ UNCHANGED <<stream, images, image_counter, chapters, current_chapter,
                   chapter_counter, node, render_vars>>

\* parse() raises (the file is gone, it is no .docx, any other exception):
\* "except Exception as e: ... raise typer.Exit(1)"
convert_parse_except ==
    /\ pc = "parse"
    /\ pc' = "exit"
    /\ ret' = Exited(1, "parse_error")
    /\ UNCHANGED <<stream, images, image_counter, chapters, current_chapter,
                   chapter_counter, node, render_vars>>

\* "if format in ("epub", "both")": a new EpubRenderer is made and its
\* render() called
convert_generate_epub ==
    /\ pc = "epub"
    /\ pc' = IF format \in {F_epub, F_both} THEN "epub_render" ELSE "pdf"
    /\ image_items' =
          IF format \in {F_epub, F_both} THEN Append(image_items, EmptyDict)
          ELSE image_items
    /\ renders' =
          IF format \in {F_epub, F_both}
          THEN Append(renders,
                      [renderer |-> "epub", instance |-> Len(image_items) + 1,
                       pc |-> "set_metadata", i |-> 1, book |-> EpubBook,
                       chapters |-> <<>>])
          ELSE renders
    /\ UNCHANGED <<stream, images, image_counter, chapters, current_chapter,
                   chapter_counter, node, document, config, ret>>

\* render() returned: "EPUB saved"
convert_epub_saved ==
    /\ pc = "epub_render"
    /\ LastRender.pc = "written"
    /\ pc' = "pdf"
    /\ ret' = Logged("epub_saved")
    /\ UNCHANGED <<stream, images, image_counter, chapters, current_chapter,
                   chapter_counter, node, render_vars>>

\* render() raised: "except Exception as e" of the EPUB block
convert_epub_except ==
    /\ pc = "epub_render"
    /\ LastRender.pc = "raised"
    /\ pc' = after_render_error(format, F_epub, "pdf")
    /\ ret' = IF after_render_error(format, F_epub, "pdf") = "exit"
              THEN Exited(1, "epub_error") ELSE Logged("epub_error")
    /\ UNCHANGED <<stream, images, image_counter, chapters, current_chapter,
                   chapter_counter, node, render_vars>>

\* "if format in ("pdf", "both")": a PdfRenderer is made and its render()
\* called
convert_generate_pdf ==
    /\ pc = "pdf"
    /\ pc' = IF format \in {F_pdf, F_both} THEN "pdf_render" ELSE "complete"
    /\ renders' =
          IF format \in {F_pdf, F_both}
          THEN Append(renders,
                      [renderer |-> "pdf",
                       pc |-> IF document.chapters = <<>> THEN "generate_html"
                              ELSE "render_chapters",
                       i |-> 1, chapters_html |-> <<>>, html_content |-> None,
                       css_content |-> None])
          ELSE renders
    /\ UNCHANGED <<stream, images, image_counter, chapters, current_chapter,
                   chapter_counter, node, document, config, image_items, ret>>

\* render() returned: "PDF saved"
convert_pdf_saved ==
    /\ pc = "pdf_render"
    /\ LastRender.pc = "written"
    /\ pc' = "complete"
    /\ ret' = Logged("pdf_saved")
    /\ UNCHANGED <<stream, images, image_counter, chapters, current_chapter,
                   chapter_counter, node, render_vars>>

\* render() raised: "except Exception as e" of the PDF block
convert_pdf_except ==
    /\ pc = "pdf_render"
    /\ LastRender.pc = "raised"
    /\ pc' = after_render_error(format, F_pdf, "complete")
    /\ ret' = IF after_render_error(format, F_pdf, "complete") = "exit"
              THEN Exited(1, "pdf_error") ELSE Logged("pdf_error")
    /\ UNCHANGED <<stream, images, image_counter, chapters, current_chapter,
                   chapter_counter, node, render_vars>>

\* "Conversion complete!"; the command returns
convert_complete ==
    /\ pc = "complete"
    /\ pc' = "exit"
    /\ ret' = Exited(0, "complete")
    /\ UNCHANGED <<stream, images, image_counter, chapters, current_chapter,
                   chapter_counter, node, render_vars>>

NextConvert ==
    \/ convert_arguments
    \/ convert_validate_format
    \/ convert_load_config
    \/ convert_mkdir
    \/ convert_parse
    \/ convert_parse_except
    \/ convert_generate_epub
    \/ \E r \in DOMAIN renders, fresh \in Uuids : epub_set_metadata(r, fresh)
    \/ \E r \in DOMAIN renders : epub_add_images(r)
    \/ \E r \in DOMAIN renders : epub_create_chapter(r)
    \/ \E r \in DOMAIN renders : epub_write(r)
    \/ convert_epub_saved
    \/ convert_epub_except
    \/ convert_generate_pdf
    \/ \E r \in DOMAIN renders : pdf_render_chapter(r)
    \/ \E r \in DOMAIN renders : pdf_generate_html(r)
    \/ \E r \in DOMAIN renders : pdf_write(r)
    \/ \E r \in DOMAIN renders : render_raise(r)
    \/ convert_pdf_saved
    \/ convert_pdf_except
    \/ convert_complete

SpecConvert == InitConvert /\ [][NextConvert]_vars

(***************************************************************************)
(* C21, C22, C30: the failure paths of convert.                            *)
(***************************************************************************)
Attempted(k, renderer) ==
    Len(renders) >= k /\ renders[k].renderer = renderer

\* the output file of render call k has been written
OutputWritten(k) == Len(renders) >= k /\ renders[k].pc = "written"

BothAttempted ==
    (pc = "exit" /\ format = F_both /\ document # None) =>
        /\ Len(renders) = 2
        /\ Attempted(1, "epub")
        /\ Attempted(2, "pdf")

EpubErrorReported ==
    (format = F_both /\ Attempted(1, "epub") /\ renders[1].pc = "raised"
        /\ pc # "epub_render") =>
            /\ HasLog("epub_error")
            /\ pc = "exit" => (Attempted(2, "pdf") /\ document # None)

\* C21: with format "both" and a parsed Document the command ends with both
\* renderers attempted, EPUB first; an EPUB error is reported and the PDF
\* renderer is still called on the Document; an EPUB output once written
\* stays as it is whatever the PDF renderer does
C21_RenderersIsolated ==
    /\ [](BothAttempted /\ EpubErrorReported)
    /\ [][OutputWritten(1) => (OutputWritten(1)' /\ renders'[1] = renders[1])]_vars

C21_Witness ==
    /\ pc = "exit"
    /\ format = F_both
    /\ Attempted(1, "epub") /\ renders[1].pc = "raised"
    /\ OutputWritten(2)
    /\ ret.value = 0

\* C22: when the source is missing or parse() raises, no Document exists, no
\* renderer is called, no output is written and the command has ended with
\* a non-zero status
C22_ParseFailureFatal ==
    (HasLog("usage_error") \/ HasLog("parse_error")) =>
        /\ document = None
        /\ renders = <<>>
        /\ pc = "exit"
        /\ ret.value # 0

C22_Witness ==
    /\ HasLog("parse_error")
    /\ pc = "exit"
    /\ config # None

\* the cases of a non-zero exit status the claim lists
ListedFailure ==
    \/ ~(format \in {F_epub, F_pdf, F_both})
    \/ HasLog("config_not_found")
    \/ HasLog("parse_error")
    \/ format = F_epub /\ HasLog("epub_error")
    \/ format = F_pdf /\ HasLog("pdf_error")

\* the cases outside the body's own handlers: the source is missing, the
\* configuration file cannot be loaded, the output directory cannot be made
UnhandledFailure ==
    \/ HasLog("usage_error")
    \/ HasLog("config_error")
    \/ HasLog("mkdir_error")

InvalidFormatFirst ==
    ~(format \in {F_epub, F_pdf, F_both}) =>
        /\ document = None
        /\ renders = <<>>
        /\ pc \in {"convert", "validate_format", "exit"}

BothCompletes ==
    (pc = "exit" /\ format = F_both /\ document # None) =>
        /\ Attempted(1, "epub")
        /\ Attempted(2, "pdf")
        /\ ret.value = 0
        /\ ret.log[Len(ret.log)] = "complete"

\* the positions of convert and of a render() call in the order of the code
ConvertOrder ==
    <<"convert", "validate_format", "load_config", "mkdir", "parse", "epub",
      "epub_render", "pdf", "pdf_render", "complete", "exit">>

RenderOrder ==
    <<"set_metadata", "add_images", "create_chapters", "render_chapters",
      "generate_html", "write", "written", "raised">>

Place(order, p) == CHOOSE k \in DOMAIN order : order[k] = p

\* a step moves convert forward, or leaves it waiting for the render() call
\* made last, which moves forward itself or goes on to the next chapter
Advances ==
    \/ Place(ConvertOrder, pc') > Place(ConvertOrder, pc)
    \/ /\ pc' = pc
       /\ Len(renders') = Len(renders)
       /\ renders # <<>>
       /\ \/ Place(RenderOrder, LastRender'.pc) > Place(RenderOrder, LastRender.pc)
          \/ /\ LastRender'.pc = LastRender.pc
             /\ LastRender'.i > LastRender.i

\* the loops of a render() call run over the chapters of the Document
LoopsBounded ==
    \A r \in DOMAIN renders :
        renders[r].i \in 1..Len(document.chapters)

\* convert has exited or can take a step, every step advances, and no loop
\* runs past its list: every run of the command ends with its exit
Terminates ==
    /\ [](pc = "exit" \/ ENABLED NextConvert)
    /\ [](pc \in Range(ConvertOrder) /\ LoopsBounded)
    /\ [][Advances]_vars

\* C30 as stated: convert terminates, exits non-zero exactly in the listed
\* cases, and with "both" attempts EPUB before PDF and completes with status 0
C30_ExitListed ==
    /\ Terminates
    /\ [](InvalidFormatFirst /\ BothCompletes)
    /\ [](pc = "exit" => (ret.value # 0 <=> ListedFailure))

\* C30: convert terminates, exits non-zero exactly in the listed cases or
\* when the source is missing, the configuration cannot be loaded or the
\* output directory cannot be made, and with "both" and a parsed Document
\* attempts EPUB before PDF and completes with status 0
C30_ExitStatus ==
    /\ Terminates
    /\ [](InvalidFormatFirst /\ BothCompletes)
    /\ [](pc = "exit" => (ret.value # 0 <=> (ListedFailure \/ UnhandledFailure)))

C30_Witness ==
    /\ pc = "exit"
    /\ HasLog("config_error")
    /\ ret.value = 1
    /\ format = F_both

====
